---- MODULE Spec2Model ----
(***************************************************************************)
(* A model of flo (gamis/flo): reusable pipelines (flo/pipeline.py), the   *)
(* fluent iterable It and its caching wrapper CachingIt (flo/it2.py).      *)
(*                                                                         *)
(* the expression nodes Lambda (flo/lamb.py), the exception-as-value       *)
(* wrapper Attempt (flo/attempt.py), the checks of flo/check.py and the    *)
(* parallel map of flo/parallel/_fascade.py.                               *)
(*                                                                         *)
(* Several state machines share the module:                                *)
(*   SpecBuild    the heap of Pipeline objects under the builder methods   *)
(*   Spec         one Pipeline.apply generator driven by its caller        *)
(*   SpecCache    enumerations, one after the other, of one CachingIt      *)
(*   SpecLamb     the heap of Lambda nodes, built and invoked              *)
(*   SpecBetween  Lambda.between under its calling conventions             *)
(*   SpecCollect  the terminal calls collect, index and unique_index       *)
(*   SpecStep     single-step pipelines over lists of ints and of lists    *)
(*   SpecTwice    two applications of one Pipeline to one source           *)
(*   SpecAttempt  the heap of Attempt objects                              *)
(*   SpecChain    a chain try_(...).and_then(...).and_then(...)            *)
(*   SpecCheck    check.each                                               *)
(*   SpecUnordered, SpecUnorderedFair                                      *)
(*                one map_unordered generator and the pool (the second     *)
(*                with the fairness of the caller and of the pool)         *)
(*   SpecOrdered  one map_ordered call and the pool                        *)
(*   SpecInterleaved, SpecThreads                                          *)
(*                overlapping enumerations of one CachingIt, driven by     *)
(*                one thread and by several                                *)
(*   SpecNodes    SpecLamb with nodes made by the constructor itself       *)
(***************************************************************************)
EXTENDS Integers, Sequences, FiniteSets, TLC

VARIABLES
    pipes,      \* SpecBuild: the Pipeline objects allocated so far (object id = index)
    ret,        \* SpecBuild: the last builder call, [op, self]
    pl,         \* Spec: the Pipeline whose apply is enumerated
    src,        \* Spec: the source iterable, [elems, fail]
    gen,        \* Spec: the generator made by Pipeline.apply
    out,        \* Spec: the elements yielded to the caller so far
    calls,      \* Spec, SpecCache: every call of a step function, [step, f, e, kw]
    err,        \* Spec: the exception that reached the caller (NoErr if none)
    reports,    \* Spec: how many times next() raised an exception to the caller
    cit,        \* SpecCache: the CachingIt object over the It (src, pl): [cache]
    enums,      \* SpecCache: the generators CachingIt.__iter__ has made, in order
    used,       \* per step of pl, how many elements were taken from the iterator
                \* that zip_with or chain was given (0 for any other argument)
    runs,       \* SpecTwice: the applications of pl to src, each [gen, out, err]
    nodes,      \* SpecLamb: the Lambda objects (object id = index, 1 is start)
    val,        \* SpecLamb: the last invoke, [node, x, res]
    bw,         \* SpecBetween: the between call, the node it made and the probe
    term,       \* SpecCollect: the terminal call and what it returned or raised
    atts,       \* SpecAttempt: the Attempt objects, each with the call that made it
    seen,       \* SpecAttempt: the last result() call, [att, res]
    chk,        \* SpecCheck: the call of check.each and what it returned or raised
    par         \* the parallel map: the pool, the deque of pending futures, the caller

vars == <<pipes, ret, pl, src, gen, out, calls, err, reports, cit, enums,
          used, runs, nodes, val, bw, term, atts, seen, chk, par>>

(***************************************************************************)
(* Bounds of the model.                                                    *)
(***************************************************************************)
MaxLen   == 2   \* longest source
MaxSteps == 2   \* longest pipeline that is applied
MaxPipes == 2   \* Pipeline objects built besides the root, in SpecBuild
MaxEnums == 2   \* enumerations of one CachingIt, in SpecCache

(***************************************************************************)
(* Python values: tagged so that ints, bools, lists and tuples stay apart. *)
(***************************************************************************)
I(n) == [t |-> "int", v |-> n]
B(b) == [t |-> "bool", v |-> b]
L(s) == [t |-> "list", v |-> s]
T(a, b) == [t |-> "tuple", v |-> <<a, b>>]
NoVal == [t |-> "none", v |-> 0]
\* iter(s): an iterator object over the elements s, which can be run through once
Iterator(s) == [t |-> "iterator", v |-> s]

\* bool(v): the truth value Python's `if` and `not` give a value
Truthy(v) ==
    CASE v.t = "bool" -> v.v
      [] v.t = "int" -> v.v # 0
      [] v.t = "list" -> v.v # <<>>
      [] v.t = "tuple" -> TRUE
      [] v.t \in {"method", "iterator", "generator"} -> TRUE
      [] OTHER -> FALSE

\* bool is a subclass of int: True is 1 and False is 0 in arithmetic and comparisons
Numeric(v) == v.t \in {"int", "bool"}
Num(v) == IF v.t = "bool" THEN (IF v.v THEN 1 ELSE 0) ELSE v.v

\* iter(v) succeeds on lists, tuples and iterators, raises TypeError on the rest
Iterable(v) == v.t \in {"list", "tuple", "iterator"}

\* isinstance(v, Sized)
Sized(v) == v.t \in {"list", "tuple"}

(***************************************************************************)
(* Exceptions.  An exception object is [kind, by]: its class and who       *)
(* raised it.  CtorTakesTwo(K) says whether K(message, original) can be    *)
(* constructed: UnicodeDecodeError takes exactly five arguments.           *)
(***************************************************************************)
NoExc == [kind |-> "none", by |-> "none"]
Exc(kind, by) == [kind |-> kind, by |-> by]
CtorTakesTwo(kind) == kind # "UnicodeDecodeError"

(***************************************************************************)
(* Keyword arguments: a dict, here a set of <<name, value>> pairs over the *)
(* one name "t".                                                           *)
(***************************************************************************)
NoKw == {}
Kw(t) == {<<"t", t>>}
KwGet(kw, default) == IF kw = {} THEN default ELSE (CHOOSE p \in kw : TRUE)[2]

\* kwarg_str
kwarg_str(kwargs) ==
    IF kwargs # {} THEN "(_, t=" \o ToString(KwGet(kwargs, 0)) \o ")" ELSE ""

(***************************************************************************)
(* The plain functions handed to the steps.  Ret(v) is a normal return,    *)
(* Raise(x) an exception.                                                  *)
(*   add(e, t=0)   e + t                                                   *)
(*   lt(e, t=1)    e < t                                                   *)
(*   rep(e)        [e] * e                                                 *)
(*   ident(e)      e                                                       *)
(*   boom(e)       raises ValueError on 2, else e                          *)
(*   decode(e)     raises UnicodeDecodeError on 1, else e                  *)
(***************************************************************************)
Ret(v) == [ok |-> TRUE, val |-> v, exc |-> NoExc]
Raise(x) == [ok |-> FALSE, val |-> NoVal, exc |-> x]

TakesT(f) == f \in {"add", "lt"}

RECURSIVE Copies(_, _)
Copies(v, n) == IF n <= 0 THEN <<>> ELSE <<v>> \o Copies(v, n - 1)

\* f(e, **kw)
Call(f, e, kw) ==
    IF kw # {} /\ ~TakesT(f) THEN Raise(Exc("TypeError", f))
    ELSE CASE f = "add" -> IF Numeric(e) THEN Ret(I(Num(e) + KwGet(kw, 0)))
                           ELSE Raise(Exc("TypeError", f))
           [] f = "lt" -> IF Numeric(e) THEN Ret(B(Num(e) < KwGet(kw, 1)))
                          ELSE Raise(Exc("TypeError", f))
           [] f = "rep" -> IF Numeric(e) THEN Ret(L(Copies(e, Num(e))))
                           ELSE Raise(Exc("TypeError", f))
           [] f = "ident" -> Ret(e)
           [] f = "boom" -> IF e = I(2) THEN Raise(Exc("ValueError", f)) ELSE Ret(e)
           [] f = "decode" -> IF e = I(1) THEN Raise(Exc("UnicodeDecodeError", f))
                              ELSE Ret(e)

\* as_name_function on a plain function: (its __name__, the function itself)
as_name_function(f) == [label |-> f, f |-> f]

(***************************************************************************)
(* Pipeline objects and the builder methods.  The heap ps is the sequence  *)
(* of the Pipeline objects; a builder method returns the heap after the    *)
(* call, its result being the last object.                                 *)
(***************************************************************************)
Step(op, f, kw, other) == [op |-> op, f |-> f, kw |-> kw, other |-> other]

\* Pipeline.__init__
Pipeline(label, steps) == [label |-> label, steps |-> steps]

\* pipeline(label)
pipeline(label) == Pipeline(label, <<>>)

\* Pipeline._with mutating the receiver and returning it
Pipeline_with_inplace(ps, self, additional_label, additional_step) ==
    LET m == [ps EXCEPT ![self] =
                 Pipeline(ps[self].label \o " " \o additional_label,
                          Append(ps[self].steps, additional_step))]
    IN  Append(m, m[self])

\* Pipeline._with
Pipeline_with(ps, self, additional_label, additional_step) ==
    Append(ps, Pipeline(ps[self].label \o " " \o additional_label,
                        Append(ps[self].steps, additional_step)))

\* "<type>[<len or ?>]", as zip_with and chain label their argument
SizedStr(it) ==
    "<class '" \o it.t \o "'>["
        \o (IF Sized(it) THEN ToString(Len(it.v)) ELSE "?") \o "]"

\* Pipeline.map
Pipeline_map(ps, self, mapper, kwargs) ==
    LET nf == as_name_function(mapper)
    IN  Pipeline_with(ps, self, "* " \o nf.label \o kwarg_str(kwargs),
                      Step("map", nf.f, kwargs, NoVal))

\* Pipeline.filter
Pipeline_filter(ps, self, true_condition, kwargs) ==
    LET nf == as_name_function(true_condition)
    IN  Pipeline_with(ps, self, "/ " \o nf.label \o kwarg_str(kwargs),
                      Step("filter", nf.f, kwargs, NoVal))

\* Pipeline.exclude
Pipeline_exclude(ps, self, excluded_condition, kwargs) ==
    LET nf == as_name_function(excluded_condition)
    IN  Pipeline_with(ps, self, "/ not " \o nf.label \o kwarg_str(kwargs),
                      Step("exclude", nf.f, kwargs, NoVal))

\* Pipeline.flatten
Pipeline_flatten(ps, self) ==
    Pipeline_with(ps, self, "* flatten", Step("flatten", "none", NoKw, NoVal))

\* Pipeline.zip_with
Pipeline_zip_with(ps, self, it) ==
    Pipeline_with(ps, self, "zip(" \o SizedStr(it), Step("zip_with", "none", NoKw, it))

\* Pipeline.chain
Pipeline_chain(ps, self, it) ==
    Pipeline_with(ps, self, "chain(" \o SizedStr(it), Step("chain", "none", NoKw, it))

\* Pipeline.dropwhile
Pipeline_dropwhile(ps, self, condition, kwargs) ==
    LET nf == as_name_function(condition)
    IN  Pipeline_with(ps, self, "dropwhile(" \o nf.label \o kwarg_str(kwargs),
                      Step("dropwhile", nf.f, kwargs, NoVal))

\* Pipeline.takewhile
Pipeline_takewhile(ps, self, condition, kwargs) ==
    LET nf == as_name_function(condition)
    IN  Pipeline_with(ps, self, "takewhile(" \o nf.label \o kwarg_str(kwargs),
                      Step("takewhile", nf.f, kwargs, NoVal))

(***************************************************************************)
(* The arguments the builder methods are called with.                      *)
(***************************************************************************)
MapArgs == {<<"add", Kw(1)>>, <<"rep", NoKw>>, <<"boom", NoKw>>, <<"decode", NoKw>>}
CondArgs == {<<"lt", Kw(2)>>, <<"ident", NoKw>>}
WhileArgs == {<<"lt", Kw(2)>>}
ZipArgs == {L(<<I(7), I(8)>>), I(5)}
ChainArgs == {L(<<I(7)>>)}

Last(s) == s[Len(s)]

(***************************************************************************)
(* What each specification leaves alone.                                   *)
(***************************************************************************)
NoErr == [kind |-> "none", stated |-> FALSE, item |-> 0, label |-> "",
          arg |-> NoExc, context |-> NoExc, cause |-> NoExc]
NoGen == [pc |-> "none", n |-> 0, pos |-> 0, st |-> <<>>, after |-> 0]
NoCit == [cache |-> <<>>]
NoCall == [op |-> "none"]

buildVars == <<pipes, ret>>
applyVars == <<pl, src, gen, out, err, reports, used>>
cacheVars == <<cit, enums>>
lambVars == <<nodes, val>>
otherVars == <<chk, par>>
restVars == <<runs, bw, term, atts, seen, otherVars>>

BuildIdle == pipes = <<>> /\ ret = [op |-> "none", self |-> 0]
ApplyIdle == /\ pl = pipeline("") /\ src = [elems |-> <<>>, fail |-> NoExc]
             /\ gen = NoGen /\ out = <<>> /\ err = NoErr /\ reports = 0
             /\ used = <<>>
CacheIdle == cit = NoCit /\ enums = <<>>
LambIdle == nodes = <<>> /\ val = NoCall
TwiceIdle == runs = <<>>
BetweenIdle == bw = NoCall
CollectIdle == term = NoCall
AttemptIdle == atts = <<>> /\ seen = NoCall
CheckIdle == chk = NoCall
ParallelIdle == par = NoCall
OtherIdle == CheckIdle /\ ParallelIdle
RestIdle == TwiceIdle /\ BetweenIdle /\ CollectIdle /\ AttemptIdle /\ OtherIdle

(***************************************************************************)
(* SpecBuild: builder methods called on any Pipeline object built so far.  *)
(***************************************************************************)
InitBuild ==
    /\ pipes = <<pipeline("list[2]")>>
    /\ ret = [op |-> "none", self |-> 0]
    /\ calls = <<>>
    /\ ApplyIdle /\ CacheIdle /\ LambIdle /\ RestIdle

Built(op, self, heap) ==
    /\ Len(pipes) <= MaxPipes
    /\ pipes' = heap
    /\ ret' = [op |-> op, self |-> self]
    /\ UNCHANGED <<calls, applyVars, cacheVars, lambVars, restVars>>

Map ==
    \E self \in 1..Len(pipes), a \in MapArgs :
        Built("map", self, Pipeline_map(pipes, self, a[1], a[2]))

Filter ==
    \E self \in 1..Len(pipes), a \in CondArgs :
        Built("filter", self, Pipeline_filter(pipes, self, a[1], a[2]))

Exclude ==
    \E self \in 1..Len(pipes), a \in CondArgs :
        Built("exclude", self, Pipeline_exclude(pipes, self, a[1], a[2]))

Flatten ==
    \E self \in 1..Len(pipes) :
        Built("flatten", self, Pipeline_flatten(pipes, self))

ZipWith ==
    \E self \in 1..Len(pipes), it \in ZipArgs :
        Built("zip_with", self, Pipeline_zip_with(pipes, self, it))

Chain ==
    \E self \in 1..Len(pipes), it \in ChainArgs :
        Built("chain", self, Pipeline_chain(pipes, self, it))

Dropwhile ==
    \E self \in 1..Len(pipes), a \in WhileArgs :
        Built("dropwhile", self, Pipeline_dropwhile(pipes, self, a[1], a[2]))

Takewhile ==
    \E self \in 1..Len(pipes), a \in WhileArgs :
        Built("takewhile", self, Pipeline_takewhile(pipes, self, a[1], a[2]))

NextBuild ==
    \/ Map \/ Filter \/ Exclude \/ Flatten
    \/ ZipWith \/ Chain \/ Dropwhile \/ Takewhile

SpecBuild == InitBuild /\ [][NextBuild]_vars

(***************************************************************************)
(* C1: every builder operation returns a new Pipeline whose steps are the  *)
(* receiver's steps followed by exactly one new step (of the operation     *)
(* called), and leaves the label and steps of the receiver, and of every   *)
(* other Pipeline built so far, unchanged.                                 *)
(***************************************************************************)
C1_BuilderAppendsAndKeepsReceiver ==
    [][ret' # ret \/ pipes' # pipes =>
          LET self == ret'.self
              new == pipes'[Len(pipes')]
          IN  /\ Len(pipes') = Len(pipes) + 1
              /\ \A i \in 1..Len(pipes) : pipes'[i] = pipes[i]
              /\ Len(new.steps) = Len(pipes[self].steps) + 1
              /\ SubSeq(new.steps, 1, Len(pipes[self].steps)) = pipes[self].steps
              /\ new.steps[Len(new.steps)].op = ret'.op]_vars

\* two pipelines derived from the same parent, which still has no step
C1_Witness ==
    /\ Len(pipes) = 3
    /\ pipes[1].steps = <<>>
    /\ Len(pipes[2].steps) = 1 /\ Len(pipes[3].steps) = 1
    /\ pipes[2].steps # pipes[3].steps
    /\ pipes[1].label = "list[2]"

(***************************************************************************)
(* Lazy enumeration.  A frame g = [pos, st, calls, used] is the state of   *)
(* the nested iterators that the steps of one apply build over one source: *)
(* pos is how many source elements were pulled, st[i] the state of the     *)
(* iterator made by step i, calls the log of step-function calls.  used[i] *)
(* belongs to the step, not to the application: it is how far the iterator *)
(* that zip_with or chain captured has been run.                           *)
(* Next*(steps, s, i, g) is next() on the iterator made by step i.         *)
(***************************************************************************)
StepState0 == [buf |-> <<>>, k |-> 0, flag |-> FALSE]
Frame(pos, st, cs, us) == [pos |-> pos, st |-> st, calls |-> cs, used |-> us]
NoneUsed(steps) == [i \in 1..Len(steps) |-> 0]
Yield(g, v) == [g |-> g, tag |-> "val", val |-> v, exc |-> NoExc]
Stop(g) == [g |-> g, tag |-> "stop", val |-> NoVal, exc |-> NoExc]
Throw(g, x) == [g |-> g, tag |-> "raise", val |-> NoVal, exc |-> x]
Logged(g, i, f, e, kw) ==
    [g EXCEPT !.calls = Append(@, [step |-> i, f |-> f, e |-> e, kw |-> kw])]

\* next() on the source: its elements, then StopIteration or its failure
NextSrc(s, g) ==
    IF g.pos < Len(s.elems)
    THEN Yield([g EXCEPT !.pos = @ + 1], s.elems[g.pos + 1])
    ELSE IF s.fail # NoExc THEN Throw(g, s.fail) ELSE Stop(g)

RECURSIVE Pull(_, _, _, _)

\* map as a list comprehension: the first next() maps the whole input into buf
RECURSIVE MapAhead(_, _, _, _)
MapAhead(steps, s, i, g) ==
    LET u == Pull(steps, s, i - 1, g)
    IN  IF u.tag = "raise" THEN u
        ELSE IF u.tag = "stop" THEN Stop([u.g EXCEPT !.st[i].flag = TRUE])
        ELSE LET c == Call(steps[i].f, u.val, steps[i].kw)
                 g2 == Logged(u.g, i, steps[i].f, u.val, steps[i].kw)
             IN  IF ~c.ok THEN Throw(g2, c.exc)
                 ELSE MapAhead(steps, s, i, [g2 EXCEPT !.st[i].buf = Append(@, c.val)])

FromBuf(i, r) ==
    IF r.tag # "stop" \/ r.g.st[i].buf = <<>> THEN r
    ELSE Yield([r.g EXCEPT !.st[i].buf = Tail(@)], Head(r.g.st[i].buf))

NextMap_eager(steps, s, i, g) ==
    FromBuf(i, IF g.st[i].flag THEN Stop(g) ELSE MapAhead(steps, s, i, g))

\* map: (f(e, **kwargs) for e in it)
NextMap(steps, s, i, g) ==
    LET u == Pull(steps, s, i - 1, g)
    IN  IF u.tag # "val" THEN u
        ELSE LET c == Call(steps[i].f, u.val, steps[i].kw)
                 g2 == Logged(u.g, i, steps[i].f, u.val, steps[i].kw)
             IN  IF c.ok THEN Yield(g2, c.val) ELSE Throw(g2, c.exc)

\* filter: (e for e in it if f(e, **kwargs))
RECURSIVE NextFilter(_, _, _, _)
NextFilter(steps, s, i, g) ==
    LET u == Pull(steps, s, i - 1, g)
    IN  IF u.tag # "val" THEN u
        ELSE LET c == Call(steps[i].f, u.val, steps[i].kw)
                 g2 == Logged(u.g, i, steps[i].f, u.val, steps[i].kw)
             IN  IF ~c.ok THEN Throw(g2, c.exc)
                 ELSE IF Truthy(c.val) THEN Yield(g2, u.val)
                 ELSE NextFilter(steps, s, i, g2)

\* exclude without its `not`
NextExclude_keeps(steps, s, i, g) == NextFilter(steps, s, i, g)

\* exclude: (e for e in it if not f(e, **kwargs))
RECURSIVE NextExclude(_, _, _, _)
NextExclude(steps, s, i, g) ==
    LET u == Pull(steps, s, i - 1, g)
    IN  IF u.tag # "val" THEN u
        ELSE LET c == Call(steps[i].f, u.val, steps[i].kw)
                 g2 == Logged(u.g, i, steps[i].f, u.val, steps[i].kw)
             IN  IF ~c.ok THEN Throw(g2, c.exc)
                 ELSE IF ~Truthy(c.val) THEN Yield(g2, u.val)
                 ELSE NextExclude(steps, s, i, g2)

\* flatten passing over what it cannot iterate
RECURSIVE NextFlatten_skips(_, _, _, _)
NextFlatten_skips(steps, s, i, g) ==
    IF g.st[i].buf # <<>>
    THEN Yield([g EXCEPT !.st[i].buf = Tail(@)], Head(g.st[i].buf))
    ELSE LET u == Pull(steps, s, i - 1, g)
         IN  IF u.tag # "val" THEN u
             ELSE IF ~Iterable(u.val) THEN NextFlatten_skips(steps, s, i, u.g)
             ELSE NextFlatten_skips(steps, s, i, [u.g EXCEPT !.st[i].buf = u.val.v])

\* flatten: (e for ee in it for e in ee); buf is what is left of the current ee
RECURSIVE NextFlatten(_, _, _, _)
NextFlatten(steps, s, i, g) ==
    IF g.st[i].buf # <<>>
    THEN Yield([g EXCEPT !.st[i].buf = Tail(@)], Head(g.st[i].buf))
    ELSE LET u == Pull(steps, s, i - 1, g)
         IN  IF u.tag # "val" THEN u
             ELSE IF ~Iterable(u.val) THEN Throw(u.g, Exc("TypeError", "flatten"))
             ELSE NextFlatten(steps, s, i, [u.g EXCEPT !.st[i].buf = u.val.v])

\* how many elements of the argument `it` of step i were taken: iter(it) of a
\* list starts at its first element in every application, iter(it) of an
\* iterator is that iterator
Taken(steps, i, g) ==
    IF steps[i].other.t = "iterator" THEN g.used[i] ELSE g.st[i].k
TakeOne(steps, i, g) ==
    IF steps[i].other.t = "iterator" THEN [g EXCEPT !.used[i] = @ + 1]
    ELSE [g EXCEPT !.st[i].k = @ + 1]

\* zip_with: zip(e, it)
NextZip(steps, s, i, g) ==
    LET u == Pull(steps, s, i - 1, g)
    IN  IF u.tag # "val" THEN u
        ELSE IF Taken(steps, i, u.g) < Len(steps[i].other.v)
        THEN Yield(TakeOne(steps, i, u.g),
                   T(u.val, steps[i].other.v[Taken(steps, i, u.g) + 1]))
        ELSE Stop(u.g)

\* chain: chain(e, it); flag says e is exhausted
NextChain(steps, s, i, g) ==
    LET u == IF g.st[i].flag THEN Stop(g) ELSE Pull(steps, s, i - 1, g)
    IN  IF u.tag # "stop" THEN u
        ELSE IF ~Iterable(steps[i].other) THEN Throw(u.g, Exc("TypeError", "chain"))
        ELSE IF Taken(steps, i, u.g) < Len(steps[i].other.v)
        THEN Yield(TakeOne(steps, i, [u.g EXCEPT !.st[i].flag = TRUE]),
                   steps[i].other.v[Taken(steps, i, u.g) + 1])
        ELSE Stop([u.g EXCEPT !.st[i].flag = TRUE])

\* dropwhile: itertools.dropwhile(f, it); flag says the dropping is over
RECURSIVE NextDropwhile(_, _, _, _)
NextDropwhile(steps, s, i, g) ==
    LET u == Pull(steps, s, i - 1, g)
    IN  IF u.tag # "val" \/ g.st[i].flag THEN u
        ELSE LET c == Call(steps[i].f, u.val, NoKw)
                 g2 == Logged(u.g, i, steps[i].f, u.val, NoKw)
             IN  IF ~c.ok THEN Throw(g2, c.exc)
                 ELSE IF Truthy(c.val) THEN NextDropwhile(steps, s, i, g2)
                 ELSE Yield([g2 EXCEPT !.st[i].flag = TRUE], u.val)

\* takewhile going on after the condition has failed
NextTakewhile_filters(steps, s, i, g) == NextFilter(steps, s, i, g)

\* takewhile: itertools.takewhile(f, it); flag says the condition has failed
NextTakewhile(steps, s, i, g) ==
    IF g.st[i].flag THEN Stop(g)
    ELSE LET u == Pull(steps, s, i - 1, g)
         IN  IF u.tag # "val" THEN u
             ELSE LET c == Call(steps[i].f, u.val, NoKw)
                      g2 == Logged(u.g, i, steps[i].f, u.val, NoKw)
                  IN  IF ~c.ok THEN Throw(g2, c.exc)
                      ELSE IF Truthy(c.val) THEN Yield(g2, u.val)
                      ELSE Stop([g2 EXCEPT !.st[i].flag = TRUE])

\* next() on the output of step i (i = 0: the source)
Pull(steps, s, i, g) ==
    IF i = 0 THEN NextSrc(s, g)
    ELSE CASE steps[i].op = "map" -> NextMap(steps, s, i, g)
           [] steps[i].op = "filter" -> NextFilter(steps, s, i, g)
           [] steps[i].op = "exclude" -> NextExclude(steps, s, i, g)
           [] steps[i].op = "flatten" -> NextFlatten(steps, s, i, g)
           [] steps[i].op = "zip_with" -> NextZip(steps, s, i, g)
           [] steps[i].op = "chain" -> NextChain(steps, s, i, g)
           [] steps[i].op = "dropwhile" -> NextDropwhile(steps, s, i, g)
           [] steps[i].op = "takewhile" -> NextTakewhile(steps, s, i, g)

(***************************************************************************)
(* Pipeline.apply: a generator.  pc is "created" before its first next(),  *)
(* "suspended" at the yield, "finished" once it returned or raised.        *)
(***************************************************************************)
\* zip(e, it) calls iter(it) when the step is applied, before any element is pulled
FailsWhenApplied(steps) ==
    \E i \in 1..Len(steps) : steps[i].op = "zip_with" /\ ~Iterable(steps[i].other)

\* the re-raise stating n, the index of the last element yielded
ReRaise_last(ee, n, label) ==
    IF CtorTakesTwo(ee.kind)
    THEN [kind |-> ee.kind, stated |-> TRUE, item |-> n, label |-> label,
          arg |-> ee, context |-> ee, cause |-> NoExc]
    ELSE [kind |-> "TypeError", stated |-> FALSE, item |-> 0, label |-> "",
          arg |-> NoExc, context |-> ee, cause |-> NoExc]

\* raise type(ee)(f"Failed to iterate to item {n + 1} in flo.Pipeline({self.label})", ee)
\* raised while ee is being handled; type(ee) may refuse the two arguments
ReRaise(ee, n, label) ==
    IF CtorTakesTwo(ee.kind)
    THEN [kind |-> ee.kind, stated |-> TRUE, item |-> n + 1, label |-> label,
          arg |-> ee, context |-> ee, cause |-> NoExc]
    ELSE [kind |-> "TypeError", stated |-> FALSE, item |-> 0, label |-> "",
          arg |-> NoExc, context |-> ee, cause |-> NoExc]

\* the generator object Pipeline.apply returns: nothing has run yet
NewGen(steps) ==
    [pc |-> "created", n |-> 0 - 1, pos |-> 0,
     st |-> [i \in 1..Len(steps) |-> StepState0], after |-> 0]

\* one next() on the generator gn of an apply with these steps and this label,
\* with the call log cs and the captured iterators at us:
\* [gen, yielded, calls, used, err].  A finished generator raises
\* StopIteration and runs nothing.
ApplyNext(steps, label, it, gn, cs, us) ==
    LET g == Frame(gn.pos, gn.st, cs, us)
        r == IF gn.pc = "finished" THEN Stop(g)
             ELSE IF gn.pc = "created" /\ FailsWhenApplied(steps)
             THEN Throw(g, Exc("TypeError", "zip_with"))
             ELSE Pull(steps, it, Len(steps), g)
        at == [gn EXCEPT !.pos = r.g.pos, !.st = r.g.st,
                         !.after = IF gn.pc = "finished" THEN 1 ELSE 0]
    IN  CASE r.tag = "val" ->
               [gen |-> [at EXCEPT !.pc = "suspended", !.n = gn.n + 1],
                yielded |-> <<r.val>>, calls |-> r.g.calls, used |-> r.g.used,
                err |-> NoErr]
          [] r.tag = "stop" ->
               [gen |-> [at EXCEPT !.pc = "finished"],
                yielded |-> <<>>, calls |-> r.g.calls, used |-> r.g.used,
                err |-> NoErr]
          [] r.tag = "raise" ->
               [gen |-> [at EXCEPT !.pc = "finished"],
                yielded |-> <<>>, calls |-> r.g.calls, used |-> r.g.used,
                err |-> ReRaise(r.exc, gn.n, label)]

Reverse(q) == [i \in 1..Len(q) |-> q[Len(q) + 1 - i]]

\* Pipeline.apply running the steps last-added first
Pipeline_apply_reversed(self, it, gn, cs, us) ==
    ApplyNext(Reverse(self.steps), self.label, it, gn, cs, us)

\* Pipeline.apply that stays open after reporting a failure
Pipeline_apply_resumes(self, it, gn, cs, us) ==
    LET r == ApplyNext(self.steps, self.label, it, gn, cs, us)
    IN  IF r.err # NoErr THEN [r EXCEPT !.gen.pc = "suspended"] ELSE r

\* Pipeline.apply
Pipeline_apply(self, it, gn, cs, us) ==
    ApplyNext(self.steps, self.label, it, gn, cs, us)

(***************************************************************************)
(* Spec: a source and a pipeline built over it; the caller applies the     *)
(* pipeline and calls next() on the generator.                             *)
(***************************************************************************)
Elems == {I(0), I(1), I(2)}
SeqsUpTo(S, n) == UNION {[1..k -> S] : k \in 0..n}
\* lists, and generators that yield some zeros and then raise
Sources ==
    {[elems |-> e, fail |-> NoExc] : e \in SeqsUpTo(Elems, MaxLen)}
    \cup {[elems |-> e, fail |-> Exc("ValueError", "src")] : e \in SeqsUpTo({I(0)}, MaxLen)}

\* from_(it): the label names the type, and the length of a Sized source
from_label(it) ==
    IF it.fail = NoExc THEN "list[" \o ToString(Len(it.elems)) \o "]" ELSE "generator"

\* the pipelines one builder call makes out of p
Extended(p) ==
    {Last(h) : h \in
        {Pipeline_map(<<p>>, 1, a[1], a[2]) : a \in MapArgs}
        \cup {Pipeline_filter(<<p>>, 1, a[1], a[2]) : a \in CondArgs}
        \cup {Pipeline_exclude(<<p>>, 1, a[1], a[2]) : a \in CondArgs}
        \cup {Pipeline_flatten(<<p>>, 1)}
        \cup {Pipeline_zip_with(<<p>>, 1, it) : it \in ZipArgs}
        \cup {Pipeline_chain(<<p>>, 1, it) : it \in ChainArgs}
        \cup {Pipeline_dropwhile(<<p>>, 1, a[1], a[2]) : a \in WhileArgs}
        \cup {Pipeline_takewhile(<<p>>, 1, a[1], a[2]) : a \in WhileArgs}}

\* the pipelines at most n builder calls make out of the pipelines of P
RECURSIVE BuiltFrom(_, _)
BuiltFrom(P, n) ==
    IF n = 0 THEN P ELSE BuiltFrom(P \cup UNION {Extended(p) : p \in P}, n - 1)

Init ==
    /\ src \in Sources
    /\ pl \in BuiltFrom({pipeline(from_label(src))}, MaxSteps)
    /\ gen = NoGen
    /\ out = <<>> /\ calls = <<>> /\ err = NoErr /\ reports = 0
    /\ used = NoneUsed(pl.steps)
    /\ BuildIdle /\ CacheIdle /\ LambIdle /\ RestIdle

\* It.__iter__: self._pipeline.apply(self._src); the body has not started
Apply ==
    /\ gen.pc = "none"
    /\ gen' = NewGen(pl.steps)
    /\ UNCHANGED <<src, pl, out, calls, err, reports, used,
                   buildVars, cacheVars, lambVars, restVars>>

\* what one next() of the caller does to the state
Advance ==
    /\ LET r == Pipeline_apply(pl, src, gen, calls, used)
       IN  /\ gen' = r.gen
           /\ out' = out \o r.yielded
           /\ calls' = r.calls
           /\ used' = r.used
           /\ err' = IF r.err # NoErr THEN r.err ELSE err
           /\ reports' = IF r.err # NoErr THEN reports + 1 ELSE reports
    /\ UNCHANGED <<src, pl, buildVars, cacheVars, lambVars, restVars>>

\* the caller's next() on a generator that has not finished
NextItem ==
    /\ gen.pc \in {"created", "suspended"}
    /\ Advance

\* the caller's next() on a finished generator
NextAfterEnd ==
    /\ gen.pc = "finished" /\ gen.after = 0
    /\ Advance

Next == Apply \/ NextItem \/ NextAfterEnd

Spec == Init /\ [][Next]_vars

(***************************************************************************)
(* CachingIt.  An enumeration en is one generator of CachingIt.__iter__:   *)
(*   pc      "created", "suspended" (at a yield) or "finished"             *)
(*   mode    "replay" (iterating self._cache) or "fill" (iterating         *)
(*           self._src), chosen by `if self._cache` at the first next()    *)
(*   idx     how many elements of self._cache the replay has passed        *)
(*   up      the generator of the upstream It, in fill mode                *)
(*   out     the elements yielded to the caller                            *)
(*   pulls   how many times next() was called on the upstream generator    *)
(*   end     how it finished: "exhausted", "failed" (upstream raised) or   *)
(*           "closed" (abandoned by the caller)                            *)
(*   failed  the exception the upstream raised into it                     *)
(*   raised  the exception it raised to its caller                         *)
(***************************************************************************)
\* CachingIt.__init__
CachingIt == [cache |-> <<>>]

\* calling CachingIt.__iter__ makes a generator; its body has not started
NewEnum ==
    [pc |-> "created", mode |-> "none", idx |-> 0, up |-> NoGen, out |-> <<>>,
     pulls |-> 0, end |-> "none", failed |-> NoErr, raised |-> NoErr]

\* the handler leaving the partial buffer in place
CachingIt_except_keeps(self) == self

\* except: self._cache.clear()
CachingIt_except(self) == [self EXCEPT !.cache = <<>>]

\* an enumeration that iterates the upstream whatever the buffer holds
ModeOf_always_fill(self, en) ==
    IF en.pc # "created" THEN en.mode ELSE "fill"

\* `if self._cache`, evaluated when the body starts
ModeOf(self, en) ==
    IF en.pc # "created" THEN en.mode
    ELSE IF self.cache # <<>> THEN "replay" ELSE "fill"

\* for e in self._cache: yield e; then return
Replay(self, en, cs) ==
    IF en.idx < Len(self.cache)
    THEN [cit |-> self,
          en |-> [en EXCEPT !.pc = "suspended", !.mode = "replay", !.idx = @ + 1,
                            !.out = Append(@, self.cache[en.idx + 1])],
          calls |-> cs]
    ELSE [cit |-> self,
          en |-> [en EXCEPT !.pc = "finished", !.mode = "replay", !.end = "exhausted"],
          calls |-> cs]

\* for e in self._src: self._cache.append(e); yield e, under the bare except;
\* r is what next() on the upstream generator did
Fill(self, en, r) ==
    LET at == [en EXCEPT !.mode = "fill", !.up = r.gen, !.pulls = @ + 1]
    IN  IF r.yielded # <<>>
        THEN [cit |-> [self EXCEPT !.cache = Append(@, r.yielded[1])],
              en |-> [at EXCEPT !.pc = "suspended", !.out = Append(@, r.yielded[1])],
              calls |-> r.calls]
        ELSE IF r.err # NoErr
        THEN \* the handler swallows the exception and the generator returns
             [cit |-> CachingIt_except(self),
              en |-> [at EXCEPT !.pc = "finished", !.end = "failed", !.failed = r.err],
              calls |-> r.calls]
        ELSE [cit |-> self,
              en |-> [at EXCEPT !.pc = "finished", !.end = "exhausted"],
              calls |-> r.calls]

\* one next() on the enumeration en of CachingIt.__iter__: [cit, en, calls]
CachingIt_iter_next(self, it, en, cs) ==
    IF en.pc = "finished" THEN [cit |-> self, en |-> en, calls |-> cs]
    ELSE IF ModeOf(self, en) = "replay" THEN Replay(self, en, cs)
    ELSE Fill(self, en,
              Pipeline_apply(it.pl, it.src,
                             IF en.pc = "created" THEN NewGen(it.pl.steps) ELSE en.up,
                             cs, NoneUsed(it.pl.steps)))

\* close() on the enumeration en: GeneratorExit is raised at its yield, and the
\* bare except of the fill loop catches it
CachingIt_iter_close(self, en) ==
    [cit |-> IF en.pc = "suspended" /\ en.mode = "fill"
             THEN CachingIt_except(self) ELSE self,
     en |-> [en EXCEPT !.pc = "finished", !.end = "closed"]]

(***************************************************************************)
(* What the steps make of a whole sequence, [ok, seq]: the composition     *)
(* step_k(...step_1(xs)) when every call returns.  With quiet, boom and    *)
(* decode return their argument instead of raising: the failure-free run.  *)
(***************************************************************************)
Fine(q) == [ok |-> TRUE, seq |-> q]
Bad == [ok |-> FALSE, seq |-> <<>>]
CallQ(quiet, f, e, kw) ==
    IF quiet /\ f \in {"boom", "decode"} THEN Ret(e) ELSE Call(f, e, kw)

RECURSIVE MapAll(_, _, _, _)
MapAll(quiet, f, kw, xs) ==
    IF xs = <<>> THEN Fine(<<>>)
    ELSE LET c == CallQ(quiet, f, Head(xs), kw)
             r == MapAll(quiet, f, kw, Tail(xs))
         IN  IF c.ok /\ r.ok THEN Fine(<<c.val>> \o r.seq) ELSE Bad

RECURSIVE KeepAll(_, _, _, _, _)
KeepAll(quiet, f, kw, keep, xs) ==
    IF xs = <<>> THEN Fine(<<>>)
    ELSE LET c == CallQ(quiet, f, Head(xs), kw)
             r == KeepAll(quiet, f, kw, keep, Tail(xs))
         IN  IF ~(c.ok /\ r.ok) THEN Bad
             ELSE IF Truthy(c.val) = keep THEN Fine(<<Head(xs)>> \o r.seq)
             ELSE r

RECURSIVE FlattenAll(_)
FlattenAll(xs) ==
    IF xs = <<>> THEN Fine(<<>>)
    ELSE LET r == FlattenAll(Tail(xs))
         IN  IF Iterable(Head(xs)) /\ r.ok THEN Fine(Head(xs).v \o r.seq) ELSE Bad

ZipAll(xs, it) ==
    IF ~Iterable(it) THEN Bad
    ELSE Fine([i \in 1..(IF Len(xs) < Len(it.v) THEN Len(xs) ELSE Len(it.v))
                  |-> T(xs[i], it.v[i])])

ChainAll(xs, it) == IF ~Iterable(it) THEN Bad ELSE Fine(xs \o it.v)

RECURSIVE DropAll(_, _, _)
DropAll(quiet, f, xs) ==
    IF xs = <<>> THEN Fine(<<>>)
    ELSE LET c == CallQ(quiet, f, Head(xs), NoKw)
         IN  IF ~c.ok THEN Bad
             ELSE IF Truthy(c.val) THEN DropAll(quiet, f, Tail(xs))
             ELSE Fine(xs)

RECURSIVE TakeAll(_, _, _)
TakeAll(quiet, f, xs) ==
    IF xs = <<>> THEN Fine(<<>>)
    ELSE LET c == CallQ(quiet, f, Head(xs), NoKw)
             r == TakeAll(quiet, f, Tail(xs))
         IN  IF ~c.ok THEN Bad
             ELSE IF ~Truthy(c.val) THEN Fine(<<>>)
             ELSE IF r.ok THEN Fine(<<Head(xs)>> \o r.seq) ELSE Bad

StepAll(quiet, step, xs) ==
    CASE step.op = "map" -> MapAll(quiet, step.f, step.kw, xs)
      [] step.op = "filter" -> KeepAll(quiet, step.f, step.kw, TRUE, xs)
      [] step.op = "exclude" -> KeepAll(quiet, step.f, step.kw, FALSE, xs)
      [] step.op = "flatten" -> FlattenAll(xs)
      [] step.op = "zip_with" -> ZipAll(xs, step.other)
      [] step.op = "chain" -> ChainAll(xs, step.other)
      [] step.op = "dropwhile" -> DropAll(quiet, step.f, xs)
      [] step.op = "takewhile" -> TakeAll(quiet, step.f, xs)

RECURSIVE Composed(_, _, _, _)
Composed(quiet, steps, k, xs) ==
    IF k = 0 THEN Fine(xs)
    ELSE LET r == Composed(quiet, steps, k - 1, xs)
         IN  IF r.ok THEN StepAll(quiet, steps[k], r.seq) ELSE Bad

IsPrefix(p, q) == Len(p) <= Len(q) /\ p = SubSeq(q, 1, Len(p))
Ops(p) == [i \in 1..Len(p.steps) |-> p.steps[i].op]

(***************************************************************************)
(* C2: the output of apply is step_k(...step_2(step_1(source))), the steps *)
(* taken in the order they were added: whenever that composition is        *)
(* defined over a list source, what has been yielded is a prefix of it     *)
(* and a finished enumeration has yielded all of it, without an error.     *)
(***************************************************************************)
C2_StepsAppliedInOrder ==
    LET ref == Composed(FALSE, pl.steps, Len(pl.steps), src.elems)
    IN  (src.fail = NoExc /\ ref.ok) =>
            /\ IsPrefix(out, ref.seq)
            /\ gen.pc = "finished" => (out = ref.seq /\ err = NoErr)

\* map(add, t=1).filter(lt, t=2) over a two-element list has kept add(x) = 1 only
C2_Witness ==
    /\ Ops(pl) = <<"map", "filter">>
    /\ pl.steps[1].f = "add" /\ pl.steps[2].f = "lt"
    /\ Len(src.elems) = 2 /\ src.fail = NoExc
    /\ gen.pc = "finished" /\ out = <<I(1)>>

(***************************************************************************)
(* C3: the exception that reaches the caller of apply is of the kind of    *)
(* the exception raised during the enumeration, its message states the     *)
(* pipeline's full label, and it carries the original exception.           *)
(***************************************************************************)
C3_SameKindLabelAndOriginal ==
    err # NoErr =>
        /\ err.kind = err.context.kind
        /\ err.stated /\ err.label = pl.label
        /\ err.arg = err.context \/ err.cause = err.context

C8_FailureEndsEnumeration ==
    /\ [](err # NoErr =>
            /\ gen.pc = "finished" /\ reports = 1
            /\ LET free == Composed(TRUE, pl.steps, Len(pl.steps), src.elems)
               IN  free.ok => IsPrefix(out, free.seq))
    /\ [][gen.pc = "finished" =>
            /\ gen'.pc = "finished"
            /\ out' = out /\ calls' = calls /\ reports' = reports /\ err' = err]_vars

\* a step function failed after an element was yielded, and next() was called again
C8_Witness ==
    /\ err # NoErr /\ err.context.by \in {"boom", "decode"}
    /\ Len(out) >= 1 /\ gen.after = 1
    /\ Composed(TRUE, pl.steps, Len(pl.steps), src.elems).ok

(***************************************************************************)
(* C9: every call of the function of a map, filter, exclude, dropwhile or  *)
(* takewhile step receives the keyword arguments the step was built with.  *)
(***************************************************************************)
C9_KwargsReachEveryCall ==
    \A j \in 1..Len(calls) : calls[j].kw = pl.steps[calls[j].step].kw

(***************************************************************************)
(* C10: over a list, filter(p) yields exactly the elements on which p is   *)
(* truthy and exclude(p) exactly those on which p is falsy, each in source *)
(* order; every source element is in exactly one of the two.               *)
(***************************************************************************)
Holds(p, kw, e) == Truthy(Call(p, e, kw).val)
Where(p, kw, xs, keep) ==
    LET Test(e) == Holds(p, kw, e) = keep IN SelectSeq(xs, Test)

C10_FilterExcludePartition ==
    (Len(pl.steps) = 1 /\ pl.steps[1].op \in {"filter", "exclude"}
        /\ src.fail = NoExc /\ gen.pc = "finished") =>
        LET p == pl.steps[1].f
            kw == pl.steps[1].kw
            kept == Where(p, kw, src.elems, TRUE)
            dropped == Where(p, kw, src.elems, FALSE)
        IN  /\ err = NoErr
            /\ out = IF pl.steps[1].op = "filter" THEN kept ELSE dropped
            /\ Len(kept) + Len(dropped) = Len(src.elems)

\* exclude(ident) over [0, 2] has yielded the falsy 0 only
C10_Witness ==
    /\ Ops(pl) = <<"exclude">> /\ pl.steps[1].f = "ident"
    /\ src.elems = <<I(0), I(2)>> /\ src.fail = NoExc
    /\ gen.pc = "finished" /\ out = <<I(0)>>

(***************************************************************************)
(* SpecCache: an It (src, pl), its cache() and the enumerations of the     *)
(* cached It, each driven to its end or abandoned before the next starts.  *)
(***************************************************************************)
\* the pipelines of the upstream It: none, map(boom) or filter(lt, t=2)
UpstreamPipelines(root) ==
    {root, Last(Pipeline_map(<<root>>, 1, "boom", NoKw)),
     Last(Pipeline_filter(<<root>>, 1, "lt", Kw(2)))}

InitCache ==
    /\ src \in Sources
    /\ pl \in UpstreamPipelines(pipeline(from_label(src)))
    /\ cit = CachingIt
    /\ enums = <<>>
    /\ calls = <<>>
    /\ gen = NoGen /\ out = <<>> /\ err = NoErr /\ reports = 0
    /\ used = NoneUsed(pl.steps)
    /\ BuildIdle /\ LambIdle /\ RestIdle

Upstream == [src |-> src, pl |-> pl]
LastEnum == enums[Len(enums)]

\* iter() on the cached It: It.__iter__ applies its empty pipeline to the CachingIt
Iter ==
    /\ Len(enums) < MaxEnums
    /\ enums # <<>> => LastEnum.pc = "finished"
    /\ enums' = Append(enums, NewEnum)
    /\ UNCHANGED <<cit, calls, applyVars, buildVars, lambVars, restVars>>

\* next() on the running enumeration
CacheNext ==
    /\ enums # <<>> /\ LastEnum.pc # "finished"
    /\ LET r == CachingIt_iter_next(cit, Upstream, LastEnum, calls)
       IN  /\ cit' = r.cit
           /\ enums' = [enums EXCEPT ![Len(enums)] = r.en]
           /\ calls' = r.calls
    /\ UNCHANGED <<applyVars, buildVars, lambVars, restVars>>

\* the caller abandons the running enumeration
Close ==
    /\ enums # <<>> /\ LastEnum.pc # "finished"
    /\ LET r == CachingIt_iter_close(cit, LastEnum)
       IN  /\ cit' = r.cit
           /\ enums' = [enums EXCEPT ![Len(enums)] = r.en]
    /\ UNCHANGED <<calls, applyVars, buildVars, lambVars, restVars>>

NextCache == Iter \/ CacheNext \/ Close

SpecCache == InitCache /\ [][NextCache]_vars

(***************************************************************************)
(* C5: once an enumeration of the cached It has run to completion, every   *)
(* later enumeration pulls nothing from the upstream and yields the same   *)
(* elements in the same order, whatever the length of the upstream output. *)
(***************************************************************************)
C5_ReplayPullsNothing ==
    \A d, e \in 1..Len(enums) :
        (d < e /\ enums[d].end = "exhausted") =>
            /\ enums[e].pulls = 0
            /\ IsPrefix(enums[e].out, enums[d].out)
            /\ enums[e].end = "exhausted" => enums[e].out = enums[d].out

(***************************************************************************)
(* C6: an exception the upstream raises into an enumeration of the cached  *)
(* It reaches the caller of that enumeration.                              *)
(***************************************************************************)
C6_UpstreamErrorReachesCaller ==
    \A e \in 1..Len(enums) : enums[e].failed # NoErr => enums[e].raised # NoErr

(***************************************************************************)
(* C7: when the upstream raises during an enumeration, the buffer is empty *)
(* afterwards, and the next enumeration, once started, iterates the        *)
(* upstream again from its first element: it pulls every element it        *)
(* yields, and yields what the failed enumeration yielded.                 *)
(***************************************************************************)
C7_FailureDiscardsBuffer ==
    \A e \in 1..Len(enums) :
        enums[e].end = "failed" =>
            /\ e = Len(enums) => cit.cache = <<>>
            /\ (e < Len(enums) /\ enums[e + 1].mode # "none") =>
                   /\ enums[e + 1].mode = "fill"
                   /\ enums[e + 1].pulls >= Len(enums[e + 1].out)
                   /\ IsPrefix(enums[e + 1].out, enums[e].out)

\* the upstream raised after an element was yielded, and the next enumeration
\* ran into the same failure after yielding the same element
C7_Witness ==
    /\ Len(enums) = 2
    /\ enums[1].end = "failed" /\ Len(enums[1].out) >= 1
    /\ enums[2].end = "failed" /\ enums[2].out = enums[1].out
    /\ enums[2].pulls = Len(enums[2].out) + 1

(***************************************************************************)
(* A generator made by Pipeline.apply, as a value handed to a function: it *)
(* carries the It it enumerates and how far it has been run.  Drain runs   *)
(* it to its end: the elements it yields, or the exception it raises.      *)
(***************************************************************************)
Generator(it, gn, us) == [t |-> "generator", v |-> [it |-> it, gn |-> gn, used |-> us]]

\* It.__iter__ / Pipeline.__call__: self._pipeline.apply(self._src)
It_iter(self) == Generator(self, NewGen(self.pl.steps), NoneUsed(self.pl.steps))

\* the exception object of a failed apply, as [kind, by]
Raised(e) == Exc(e.kind, "Pipeline.apply")

\* list(g), g a generator: acc is what it has yielded, r what its next() does
RECURSIVE Drain(_, _)
DrainNext(g, acc, r) ==
    IF r.err # NoErr THEN Raise(Raised(r.err))
    ELSE IF r.yielded = <<>> THEN Ret(L(acc))
    ELSE Drain(Generator(g.v.it, r.gen, r.used), acc \o r.yielded)
Drain(g, acc) ==
    DrainNext(g, acc, Pipeline_apply(g.v.it.pl, g.v.it.src, g.v.gn, <<>>, g.v.used))

RECURSIVE Sum(_)
Sum(s) == IF s = <<>> THEN 0 ELSE Num(Head(s)) + Sum(Tail(s))

\* list(v)
list(v) ==
    CASE v.t = "generator" -> Drain(v, <<>>)
      [] v.t \in {"list", "tuple", "iterator"} -> Ret(L(v.v))
      [] OTHER -> Raise(Exc("TypeError", "list"))

(***************************************************************************)
(* The functions handed to collect, over any value:                        *)
(*   list(it)         the elements of it, as a list                        *)
(*   len(v)           the length of a list or tuple; TypeError otherwise   *)
(*   total(it, t=0)   sum(it) + t                                          *)
(* and the plain functions above.                                          *)
(***************************************************************************)
TakesKw(f) == TakesT(f) \/ f = "total"

\* list(it) when f is list; sum(it) + t when f is total, xs being list(it)
ListOrTotal(f, xs, kw) ==
    IF f = "list" \/ ~xs.ok THEN xs
    ELSE IF \A i \in 1..Len(xs.val.v) : Numeric(xs.val.v[i])
    THEN Ret(I(Sum(xs.val.v) + KwGet(kw, 0)))
    ELSE Raise(Exc("TypeError", f))

CallAny(f, e, kw) ==
    IF kw # {} /\ ~TakesKw(f) THEN Raise(Exc("TypeError", f))
    ELSE CASE f \in {"list", "total"} -> ListOrTotal(f, list(e), kw)
           [] f = "len" -> IF Sized(e) THEN Ret(I(Len(e.v)))
                           ELSE Raise(Exc("TypeError", f))
           [] OTHER -> Call(f, e, kw)

(***************************************************************************)
(* Lambda: an expression node [parent, accessor, name_].  The heap ns is   *)
(* the sequence of the Lambda objects; parent is an index into it, 0 for   *)
(* None.  An accessor is [op, a, kw]:                                      *)
(*   attrgetter(a)              made by __getattr__                        *)
(*   itemgetter(a)              made by __getitem__                        *)
(*   partial(_call, (), {})     made by __call__                           *)
(*   lambda e: e < a            made by __lt__                             *)
(*   lambda e: e == a           made by __eq__                             *)
(*   lambda e: not e            made by negate                             *)
(*   partial(a, **kw)           made by apply                              *)
(*   lambda e: a                made by constant                           *)
(*   lambda e: left <= e < right, and the three like it, made by between;  *)
(*                              a is [left, right, li, ri]                 *)
(* A builder method returns the heap after the call, its result being the  *)
(* last object.                                                            *)
(***************************************************************************)
Accessor(op, a, kw) == [op |-> op, a |-> a, kw |-> kw]
NoAccessor == Accessor("none", NoVal, NoKw)

\* Lambda.__init__
Lambda(parent, accessor, name_) ==
    [parent |-> parent, accessor |-> accessor, name_ |-> name_]

\* start = Lambda(name_='_', parent=None, accessor=None)
start == Lambda(0, NoAccessor, "_")

\* int.bit_length
RECURSIVE bit_length(_)
bit_length(n) == IF n = 0 THEN 0 ELSE 1 + bit_length(n \div 2)

\* getattr(e, item), for the attributes real and bit_length of int and bool
attrgetter(item, e) ==
    IF ~Numeric(e) THEN Raise(Exc("AttributeError", "attrgetter"))
    ELSE CASE item = "real" -> Ret(I(Num(e)))
           [] item = "bit_length" -> Ret([t |-> "method", v |-> <<item, e>>])
           [] OTHER -> Raise(Exc("AttributeError", "attrgetter"))

\* e[item], item an int that is not negative
itemgetter(item, e) ==
    IF e.t \notin {"list", "tuple"} THEN Raise(Exc("TypeError", "itemgetter"))
    ELSE IF item + 1 \in 1..Len(e.v) THEN Ret(e.v[item + 1])
    ELSE Raise(Exc("IndexError", "itemgetter"))

\* _call(f, args, kwargs) with no arguments: f()
call_(f) ==
    IF f.t = "method" /\ f.v[1] = "bit_length" THEN Ret(I(bit_length(Num(f.v[2]))))
    ELSE Raise(Exc("TypeError", "_call"))

\* self._accessor(p)
Accessor_call(acc, p) ==
    CASE acc.op = "attrgetter" -> attrgetter(acc.a, p)
      [] acc.op = "itemgetter" -> itemgetter(acc.a, p)
      [] acc.op = "call" -> call_(p)
      [] acc.op = "lt" -> IF Numeric(p) THEN Ret(B(Num(p) < Num(acc.a)))
                          ELSE Raise(Exc("TypeError", "lt"))
      [] acc.op = "eq" -> Ret(B(Numeric(p) /\ Num(p) = Num(acc.a)))
      [] acc.op = "negate" -> Ret(B(~Truthy(p)))
      [] acc.op = "apply" -> CallAny(acc.a, p, acc.kw)
      [] acc.op = "constant" -> Ret(acc.a)
      [] acc.op = "none" -> Raise(Exc("TypeError", "NoneType"))
      [] acc.op = "between" ->
           IF p.t \notin {"int", "bool", "float"} THEN Raise(Exc("TypeError", "between"))
           ELSE Ret(B(/\ IF acc.a.li THEN Num(acc.a.left) <= Num(p)
                                     ELSE Num(acc.a.left) < Num(p)
                      /\ IF acc.a.ri THEN Num(p) <= Num(acc.a.right)
                                     ELSE Num(p) < Num(acc.a.right)))

\* `if self._accessor`: None is falsy; functions, partials, attrgetters and
\* itemgetters are truthy
Accessor_truthy(acc) == acc.op # "none"

\* Lambda.invoke applying the accessors child first
RECURSIVE Lambda_invoke_child_first(_, _, _)
Lambda_invoke_child_first(ns, self, instance) ==
    IF ns[self].accessor.op = "none" THEN Ret(instance)
    ELSE LET c == Accessor_call(ns[self].accessor, instance)
         IN  IF ns[self].parent = 0 \/ ~c.ok THEN c
             ELSE Lambda_invoke_child_first(ns, ns[self].parent, c.val)

\* self._accessor(p), p being what the parent's invoke gave or raised
AccessorOn(acc, p) == IF p.ok THEN Accessor_call(acc, p.val) ELSE p

\* Lambda.invoke (the keyword arguments of invoke reach no accessor)
RECURSIVE Lambda_invoke(_, _, _)
Lambda_invoke(ns, self, instance) ==
    IF ns[self].parent # 0 /\ ns[ns[self].parent].accessor.op # "none"
    THEN AccessorOn(ns[self].accessor, Lambda_invoke(ns, ns[self].parent, instance))
    ELSE IF Accessor_truthy(ns[self].accessor)
    THEN Accessor_call(ns[self].accessor, instance)
    ELSE Ret(instance)

\* Lambda.__getattr__
Lambda_getattr(ns, self, item) ==
    Append(ns, Lambda(self, Accessor("attrgetter", item, NoKw), "." \o item))

\* Lambda.__getitem__
Lambda_getitem(ns, self, item) ==
    Append(ns, Lambda(self, Accessor("itemgetter", item, NoKw),
                      "[" \o ToString(item) \o "]"))

\* Lambda.__call__ with no arguments
Lambda_call(ns, self) ==
    Append(ns, Lambda(self, Accessor("call", NoVal, NoKw), "()"))

\* Lambda.__lt__: the caller gets the invoke of the new node
Lambda_lt(ns, self, other) ==
    Append(ns, Lambda(self, Accessor("lt", other, NoKw), "<" \o ToString(other.v)))

\* Lambda.__eq__: the caller gets the invoke of the new node
Lambda_eq(ns, self, other) ==
    Append(ns, Lambda(self, Accessor("eq", other, NoKw), "==" \o ToString(other.v)))

\* Lambda.negate
Lambda_negate(ns, self) ==
    Append(ns, Lambda(self, Accessor("negate", NoVal, NoKw), " not"))

\* Lambda.apply
Lambda_apply(ns, self, fcn, kwargs) ==
    Append(ns, Lambda(self, Accessor("apply", fcn, kwargs),
                      ".apply(" \o fcn \o kwarg_str(kwargs) \o ")"))

\* constant(value)
constant(ns, value) ==
    Append(ns, Lambda(0, Accessor("constant", value, NoKw), ToString(value.v)))

\* as_fcn on a plain function: the function itself
as_fcn(function_or_lambda) == function_or_lambda

(***************************************************************************)
(* collect and TerminatedPipeline.  The transform of a TerminatedPipeline  *)
(* is the invoke of the last node of a Lambda chain of its own:            *)
(* [nodes, self].                                                          *)
(***************************************************************************)
\* for c in collectors: fcn = fcn.apply(as_fcn(c))
RECURSIVE ApplyEach(_, _)
ApplyEach(ns, collectors) ==
    IF collectors = <<>> THEN ns
    ELSE ApplyEach(Lambda_apply(ns, Len(ns), as_fcn(Head(collectors)), NoKw),
                   Tail(collectors))

\* every collector bound to the keyword arguments
RECURSIVE ApplyEach_kwargs(_, _, _)
ApplyEach_kwargs(ns, collectors, kwargs) ==
    IF collectors = <<>> THEN ns
    ELSE ApplyEach_kwargs(Lambda_apply(ns, Len(ns), as_fcn(Head(collectors)), kwargs),
                          Tail(collectors), kwargs)

\* TerminatedPipeline.__init__
TerminatedPipeline(pipeline_, additional_label, transform) ==
    [label |-> pipeline_.label \o " " \o additional_label,
     pipeline |-> pipeline_, transform |-> transform]

\* Pipeline.collect handing the keyword arguments to every collector
Pipeline_collect_kwargs_all(self, collector, collectors, kwargs) ==
    LET nf == as_name_function(collector)
        fcn == ApplyEach_kwargs(Lambda_apply(<<start>>, 1, nf.f, kwargs),
                                collectors, kwargs)
    IN  TerminatedPipeline(self, "> " \o nf.label \o kwarg_str(kwargs),
                           [nodes |-> fcn, self |-> Len(fcn)])

\* Pipeline.collect
Pipeline_collect(self, collector, collectors, kwargs) ==
    LET nf == as_name_function(collector)
        fcn == ApplyEach(Lambda_apply(<<start>>, 1, nf.f, kwargs), collectors)
    IN  TerminatedPipeline(self, "> " \o nf.label \o kwarg_str(kwargs),
                           [nodes |-> fcn, self |-> Len(fcn)])

\* TerminatedPipeline.__call__
TerminatedPipeline_call(self, it) ==
    Lambda_invoke(self.transform.nodes, self.transform.self,
                  It_iter([src |-> it, pl |-> self.pipeline]))

\* It.collect
It_collect(self, collector, collectors, kwargs) ==
    TerminatedPipeline_call(Pipeline_collect(self.pl, collector, collectors, kwargs),
                            self.src)

(***************************************************************************)
(* SpecCollect: an It (src, pl) and one terminal call on it: collect, or   *)
(* index or unique_index over iter(It).                                    *)
(***************************************************************************)
\* <<kwargs, collectors>>
CollectArgs ==
    {<<NoKw, <<"list">>>>, <<NoKw, <<"len">>>>, <<NoKw, <<"list", "len">>>>,
     <<Kw(1), <<"total">>>>, <<Kw(1), <<"total", "add">>>>,
     <<Kw(1), <<"list", "len">>>>, <<NoKw, <<"list", "total", "add">>>>}

\* the pipelines of the It: those of the cached It, and chain([7])
CollectPipelines(root) ==
    UpstreamPipelines(root) \cup {Last(Pipeline_chain(<<root>>, 1, L(<<I(7)>>)))}

InitCollect ==
    /\ src \in Sources
    /\ pl \in CollectPipelines(pipeline(from_label(src)))
    /\ term = NoCall
    /\ calls = <<>>
    /\ gen = NoGen /\ out = <<>> /\ err = NoErr /\ reports = 0
    /\ used = NoneUsed(pl.steps)
    /\ BuildIdle /\ CacheIdle /\ LambIdle
    /\ TwiceIdle /\ BetweenIdle /\ AttemptIdle /\ OtherIdle

collectRest == <<calls, applyVars, buildVars, cacheVars, lambVars, runs, bw, atts, seen,
                 otherVars>>

\* from_(src)...collect(collector, *collectors, **kwargs)
Collect ==
    /\ term = NoCall
    /\ \E a \in CollectArgs :
          term' = [op |-> "collect", kwargs |-> a[1], fs |-> a[2],
                   tp |-> Pipeline_collect(pl, Head(a[2]), Tail(a[2]), a[1]),
                   res |-> It_collect(Upstream, Head(a[2]), Tail(a[2]), a[1])]
    /\ UNCHANGED collectRest

(***************************************************************************)
(* C11: collect(a1, ..., an, **kwargs) on a source returns                 *)
(* an(...a2(a1(pipeline output, **kwargs))): the transform binds the       *)
(* keyword arguments to a1 only, every later aggregator is called with one *)
(* argument, the result of the one before it, and the call returns that    *)
(* one value (or raises what an aggregator raised).                        *)
(***************************************************************************)
RECURSIVE Aggregated(_, _)
Aggregated(fs, r) ==
    IF fs = <<>> \/ ~r.ok THEN r
    ELSE Aggregated(Tail(fs), CallAny(Head(fs), r.val, NoKw))

C11_CollectChainsAggregators ==
    term.op = "collect" =>
        /\ term.res = Aggregated(Tail(term.fs),
                                 CallAny(Head(term.fs), It_iter(Upstream), term.kwargs))
        /\ Len(term.tp.transform.nodes) = Len(term.fs) + 1
        /\ \A i \in 1..Len(term.fs) :
              /\ term.tp.transform.nodes[i + 1].accessor.a = term.fs[i]
              /\ term.tp.transform.nodes[i + 1].accessor.kw =
                     IF i = 1 THEN term.kwargs ELSE NoKw

\* collect(total, add, t=1) over [1, 2]: add(total([1, 2], t=1)) = 4
C11_Witness ==
    /\ term.op = "collect" /\ term.fs = <<"total", "add">> /\ term.kwargs = Kw(1)
    /\ src.elems = <<I(1), I(2)>> /\ src.fail = NoExc /\ pl.steps = <<>>
    /\ term.res = Ret(I(4))

(***************************************************************************)
(* index and unique_index.  A dict is a function from its keys to its      *)
(* values.  The loop state s is [gn, used, d, e, taken]: the generator it  *)
(* and the captured iterators, the dict, the loop variable e and how many  *)
(* elements the loop has taken from it.                                    *)
(***************************************************************************)
D(d) == [t |-> "dict", v |-> d]

\* hash(k): lists and dicts are unhashable
Hashable(k) == k.t \notin {"list", "dict"}

\* `k in d` finding nothing
dict_has_never(d, k) == FALSE

\* k in d
dict_has(d, k) == k \in DOMAIN d

\* d[k] = e
dict_set(d, k, e) == [x \in DOMAIN d \cup {k} |-> IF x = k THEN e ELSE d[x]]

\* the list under k replaced by [e]
dict_append_alone(d, k, e) == dict_set(d, k, L(<<e>>))

\* v = d.get(k); if v is None: v = []; d[k] = v; v.append(e)
dict_append(d, k, e) ==
    dict_set(d, k, L((IF dict_has(d, k) THEN d[k].v ELSE <<>>) \o <<e>>))

IndexLoop0(self) ==
    [gn |-> NewGen(self.pl.steps), used |-> NoneUsed(self.pl.steps),
     d |-> <<>>, e |-> NoVal, taken |-> 0]

IndexReturned(s) ==
    [ok |-> TRUE, val |-> D(s.d), kind |-> "none", cause |-> NoExc, e |-> NoVal,
     taken |-> s.taken]

\* except Exception as ee:
\*     raise type(ee)(f"Failed to index {it} with {label}({e}{kwargstr})", ee)
IndexFailed(ee, e, taken) ==
    [ok |-> FALSE, val |-> NoVal,
     kind |-> IF CtorTakesTwo(ee.kind) THEN ee.kind ELSE "TypeError",
     cause |-> ee, e |-> e, taken |-> taken]

\* index(it, key, **kwargs), it = iter(self); r is what next(it) does
RECURSIVE index_loop(_, _, _, _)
index_body(self, f, kwargs, s, r) ==
        IF r.err # NoErr THEN IndexFailed(Raised(r.err), s.e, s.taken)
        ELSE IF r.yielded = <<>> THEN IndexReturned(s)
        ELSE LET e == r.yielded[1]
                 k == Call(f, e, kwargs)
             IN  IF ~k.ok THEN IndexFailed(k.exc, e, s.taken + 1)
                 ELSE IF ~Hashable(k.val)
                 THEN IndexFailed(Exc("TypeError", "hash"), e, s.taken + 1)
                 ELSE index_loop(self, f, kwargs,
                                 [gn |-> r.gen, used |-> r.used,
                                  d |-> dict_append(s.d, k.val, e),
                                  e |-> e, taken |-> s.taken + 1])
index_loop(self, f, kwargs, s) ==
    index_body(self, f, kwargs, s,
               Pipeline_apply(self.pl, self.src, s.gn, <<>>, s.used))

index(self, key, kwargs) ==
    index_loop(self, as_name_function(key).f, kwargs, IndexLoop0(self))

\* unique_index(it, key, **kwargs), it = iter(self); r is what next(it) does
RECURSIVE unique_index_loop(_, _, _, _)
unique_index_body(self, f, kwargs, s, r) ==
        IF r.err # NoErr THEN IndexFailed(Raised(r.err), s.e, s.taken)
        ELSE IF r.yielded = <<>> THEN IndexReturned(s)
        ELSE LET e == r.yielded[1]
                 k == Call(f, e, kwargs)
             IN  IF ~k.ok THEN IndexFailed(k.exc, e, s.taken + 1)
                 ELSE IF ~Hashable(k.val)
                 THEN IndexFailed(Exc("TypeError", "hash"), e, s.taken + 1)
                 ELSE IF dict_has(s.d, k.val)
                 THEN IndexFailed(Exc("KeyError", "unique_index"), e, s.taken + 1)
                 ELSE unique_index_loop(self, f, kwargs,
                                        [gn |-> r.gen, used |-> r.used,
                                         d |-> dict_set(s.d, k.val, e),
                                         e |-> e, taken |-> s.taken + 1])
unique_index_loop(self, f, kwargs, s) ==
    unique_index_body(self, f, kwargs, s,
                      Pipeline_apply(self.pl, self.src, s.gn, <<>>, s.used))

unique_index(self, key, kwargs) ==
    unique_index_loop(self, as_name_function(key).f, kwargs, IndexLoop0(self))

\* <<key, kwargs>>
IndexArgs == {<<"ident", NoKw>>, <<"lt", Kw(2)>>, <<"rep", NoKw>>, <<"boom", NoKw>>}

\* index(iter(from_(src)...), key, **kwargs)
Index ==
    /\ term = NoCall
    /\ \E a \in IndexArgs :
          term' = [op |-> "index", key |-> a[1], kwargs |-> a[2],
                   res |-> index(Upstream, a[1], a[2])]
    /\ UNCHANGED collectRest

\* unique_index(iter(from_(src)...), key, **kwargs)
UniqueIndex ==
    /\ term = NoCall
    /\ \E a \in IndexArgs :
          term' = [op |-> "unique_index", key |-> a[1], kwargs |-> a[2],
                   res |-> unique_index(Upstream, a[1], a[2])]
    /\ UNCHANGED collectRest

NextCollect == Collect \/ Index \/ UniqueIndex

SpecCollect == InitCollect /\ [][NextCollect]_vars

\* the elements iter(It) yields when run to its end, and their keys
Items == Drain(It_iter(Upstream), <<>>)
KeyOf(e) == Call(term.key, e, term.kwargs)
Keyed ==
    /\ Items.ok
    /\ \A i \in 1..Len(Items.val.v) :
          KeyOf(Items.val.v[i]).ok /\ Hashable(KeyOf(Items.val.v[i]).val)
\* the positions of the elements whose key an earlier element has
Collisions ==
    {j \in 1..Len(Items.val.v) :
        \E i \in 1..(j - 1) : KeyOf(Items.val.v[i]) = KeyOf(Items.val.v[j])}
Min(S) == CHOOSE x \in S : \A y \in S : x <= y

(***************************************************************************)
(* C12: when the keys of the elements are distinct, unique_index returns   *)
(* the mapping that sends key(e) to e for every element e and has no other *)
(* key; when two elements have the same key, it fails with a KeyError at   *)
(* the second of the first such pair, having taken no element after it.    *)
(***************************************************************************)
C12_UniqueIndexMapsOrCollides ==
    (term.op = "unique_index" /\ Keyed) =>
        IF Collisions = {}
        THEN /\ term.res.ok
             /\ DOMAIN term.res.val.v = {KeyOf(Items.val.v[i]).val : i \in 1..Len(Items.val.v)}
             /\ \A i \in 1..Len(Items.val.v) :
                   term.res.val.v[KeyOf(Items.val.v[i]).val] = Items.val.v[i]
        ELSE /\ ~term.res.ok
             /\ term.res.kind = "KeyError"
             /\ term.res.cause = Exc("KeyError", "unique_index")
             /\ term.res.taken = Min(Collisions)
             /\ term.res.e = Items.val.v[Min(Collisions)]

\* unique_index by lt(e, t=2) over [0, 2]
C12_WitnessDistinct ==
    /\ term.op = "unique_index" /\ term.key = "lt"
    /\ src.elems = <<I(0), I(2)>> /\ src.fail = NoExc /\ pl.steps = <<>>
    /\ term.res.ok /\ term.res.val.v[B(TRUE)] = I(0) /\ term.res.val.v[B(FALSE)] = I(2)

\* unique_index by ident over [1, 1].chain([7]) fails at the second 1: two
\* elements were taken, the 7 was not
C12_Witness ==
    /\ term.op = "unique_index" /\ term.key = "ident"
    /\ src.elems = <<I(1), I(1)>> /\ src.fail = NoExc /\ Ops(pl) = <<"chain">>
    /\ Items.val.v = <<I(1), I(1), I(7)>>
    /\ ~term.res.ok /\ term.res.kind = "KeyError" /\ term.res.taken = 2

(***************************************************************************)
(* C13: index returns a mapping whose keys are exactly the keys of the     *)
(* elements, and the list under a key holds the elements of that key, each *)
(* once, in source order: every element is in exactly one list.            *)
(***************************************************************************)
WithKey(xs, k) == LET Test(e) == KeyOf(e).val = k IN SelectSeq(xs, Test)

C13_IndexGroupsInOrder ==
    (term.op = "index" /\ Keyed) =>
        /\ term.res.ok
        /\ DOMAIN term.res.val.v = {KeyOf(Items.val.v[i]).val : i \in 1..Len(Items.val.v)}
        /\ \A k \in DOMAIN term.res.val.v :
              term.res.val.v[k] = L(WithKey(Items.val.v, k))

\* index by lt(e, t=2) over [1, 0]: both under True, in source order
C13_Witness ==
    /\ term.op = "index" /\ term.key = "lt"
    /\ src.elems = <<I(1), I(0)>> /\ src.fail = NoExc /\ pl.steps = <<>>
    /\ term.res.ok /\ term.res.val.v[B(TRUE)] = L(<<I(1), I(0)>>)

(***************************************************************************)
(* SpecStep: one takewhile, dropwhile or flatten step over a source of     *)
(* ints or of lists, applied and enumerated as in Spec.                    *)
(***************************************************************************)
\* the elements of a source of sequences: lists, and an int among them
Inner == {L(<<>>), L(<<I(1)>>), L(<<I(1), I(2)>>), I(5)}
NestedSources == {[elems |-> e, fail |-> NoExc] : e \in SeqsUpTo(Inner, MaxLen)}

\* the conditions, given without keyword arguments
StepConds == {<<"lt", NoKw>>, <<"ident", NoKw>>}

StepPipelines(root) ==
    {Last(h) : h \in
        {Pipeline_takewhile(<<root>>, 1, a[1], a[2]) : a \in StepConds}
        \cup {Pipeline_dropwhile(<<root>>, 1, a[1], a[2]) : a \in StepConds}
        \cup {Pipeline_flatten(<<root>>, 1)}}

InitStep ==
    /\ src \in Sources \cup NestedSources
    /\ pl \in StepPipelines(pipeline(from_label(src)))
    /\ gen = NoGen
    /\ out = <<>> /\ calls = <<>> /\ err = NoErr /\ reports = 0
    /\ used = NoneUsed(pl.steps)
    /\ BuildIdle /\ CacheIdle /\ LambIdle /\ RestIdle

SpecStep == InitStep /\ [][Next]_vars

(***************************************************************************)
(* C14: over a list of ints and for a condition c given without keyword    *)
(* arguments, takewhile(c) yields the longest prefix whose elements all    *)
(* satisfy c and dropwhile(c) the rest of the list, so that the two        *)
(* outputs make up the source; and c is evaluated on the elements up to    *)
(* the first one on which it is falsy, once each, and on no later element. *)
(***************************************************************************)
RECURSIVE Leading(_, _)
Leading(c, xs) ==
    IF xs = <<>> \/ ~Holds(c, NoKw, Head(xs)) THEN 0 ELSE 1 + Leading(c, Tail(xs))

Ints(xs) == \A i \in 1..Len(xs) : xs[i].t = "int"

C14_WhilePrefixAndSuffix ==
    (Len(pl.steps) = 1 /\ pl.steps[1].op \in {"takewhile", "dropwhile"}
        /\ pl.steps[1].kw = NoKw /\ src.fail = NoExc /\ Ints(src.elems)) =>
        LET xs == src.elems
            p == Leading(pl.steps[1].f, xs)
            taken == SubSeq(xs, 1, p)
            dropped == SubSeq(xs, p + 1, Len(xs))
            whole == IF pl.steps[1].op = "takewhile" THEN taken ELSE dropped
        IN  /\ taken \o dropped = xs
            /\ IsPrefix(out, whole)
            /\ gen.pc = "finished" => (out = whole /\ err = NoErr)
            /\ Len(calls) <= p + 1 /\ Len(calls) <= Len(xs)
            /\ \A j \in 1..Len(calls) : calls[j].e = xs[j]

\* dropwhile(ident) over [0, 2]: the condition was evaluated on the 0 only
C14_Witness ==
    /\ Ops(pl) = <<"dropwhile">> /\ pl.steps[1].f = "ident"
    /\ src.elems = <<I(0), I(2)>> /\ src.fail = NoExc
    /\ gen.pc = "finished" /\ out = <<I(0), I(2)>> /\ Len(calls) = 1

\* takewhile(lt) over [0, 2]: the prefix [0]
C14_WitnessTake ==
    /\ Ops(pl) = <<"takewhile">> /\ pl.steps[1].f = "lt"
    /\ src.elems = <<I(0), I(2)>> /\ src.fail = NoExc
    /\ gen.pc = "finished" /\ out = <<I(0)>> /\ Len(calls) = 2

(***************************************************************************)
(* C15: flatten over a list yields the elements of its inner sequences, in *)
(* order; when an element of the source is not iterable, the enumeration   *)
(* fails with a TypeError once the elements of the inner sequences before  *)
(* it have been yielded, and yields nothing of what follows it.            *)
(***************************************************************************)
RECURSIVE FlatUntil(_)
FlatUntil(xs) ==
    IF xs = <<>> \/ ~Iterable(Head(xs)) THEN <<>> ELSE Head(xs).v \o FlatUntil(Tail(xs))

C15_FlattenConcatenatesOrFails ==
    (Ops(pl) = <<"flatten">> /\ src.fail = NoExc) =>
        /\ IsPrefix(out, FlatUntil(src.elems))
        /\ err # NoErr => (err.kind = "TypeError" /\ out = FlatUntil(src.elems))
        /\ gen.pc = "finished" =>
              /\ out = FlatUntil(src.elems)
              /\ err = NoErr <=> \A i \in 1..Len(src.elems) : Iterable(src.elems[i])

\* flatten over [[1, 2], 5]: 1 and 2 were yielded, then the TypeError
C15_Witness ==
    /\ Ops(pl) = <<"flatten">>
    /\ src.elems = <<L(<<I(1), I(2)>>), I(5)>>
    /\ gen.pc = "finished" /\ out = <<I(1), I(2)>> /\ err.kind = "TypeError"

\* flatten over [[], [1]]: the empty list adds nothing
C15_WitnessEmpty ==
    /\ Ops(pl) = <<"flatten">>
    /\ src.elems = <<L(<<>>), L(<<I(1)>>)>>
    /\ gen.pc = "finished" /\ out = <<I(1)>> /\ err = NoErr

(***************************************************************************)
(* SpecTwice: one Pipeline applied twice to one list; each application is  *)
(* a run [gen, out, err] and the caller may advance the two in any order.  *)
(* The iterators that zip_with and chain were given belong to the steps,   *)
(* so both runs take from them (used).                                     *)
(***************************************************************************)
\* the pipelines one builder call makes out of p, an iterator being among the
\* arguments of zip_with and chain
ExtendedTwice(p) ==
    Extended(p)
    \cup {Last(Pipeline_zip_with(<<p>>, 1, Iterator(<<I(7), I(8)>>))),
          Last(Pipeline_chain(<<p>>, 1, Iterator(<<I(7)>>)))}

RECURSIVE BuiltTwice(_, _)
BuiltTwice(P, n) ==
    IF n = 0 THEN P ELSE BuiltTwice(P \cup UNION {ExtendedTwice(p) : p \in P}, n - 1)

\* the lists among the sources
Lists == {s \in Sources : s.fail = NoExc}

InitTwice ==
    /\ src \in Lists
    /\ pl \in BuiltTwice({pipeline(from_label(src))}, MaxSteps)
    /\ runs = <<>>
    /\ calls = <<>>
    /\ used = NoneUsed(pl.steps)
    /\ gen = NoGen /\ out = <<>> /\ err = NoErr /\ reports = 0
    /\ BuildIdle /\ CacheIdle /\ LambIdle
    /\ BetweenIdle /\ CollectIdle /\ AttemptIdle /\ OtherIdle

twiceRest == <<pl, src, gen, out, err, reports, buildVars, cacheVars, lambVars,
               bw, term, atts, seen, otherVars>>

\* pl.apply(src), for the first and for the second time
ApplyAgain ==
    /\ Len(runs) < 2
    /\ runs' = Append(runs, [gen |-> NewGen(pl.steps), out |-> <<>>, err |-> NoErr])
    /\ UNCHANGED <<calls, used, twiceRest>>

\* next() on the generator of one of the applications
RunNext ==
    \E i \in 1..Len(runs) :
        /\ runs[i].gen.pc # "finished"
        /\ LET r == Pipeline_apply(pl, src, runs[i].gen, calls, used)
           IN  /\ runs' = [runs EXCEPT ![i] = [gen |-> r.gen,
                                               out |-> runs[i].out \o r.yielded,
                                               err |-> r.err]]
               /\ calls' = r.calls
               /\ used' = r.used
        /\ UNCHANGED twiceRest

NextTwice == ApplyAgain \/ RunNext

SpecTwice == InitTwice /\ [][NextTwice]_vars

(***************************************************************************)
(* C16: two applications of one Pipeline to one list that have both run to *)
(* their end have yielded the same elements and ended the same way.        *)
(***************************************************************************)
C16_TwiceSameOutput ==
    \A a, b \in 1..Len(runs) :
        (runs[a].gen.pc = "finished" /\ runs[b].gen.pc = "finished") =>
            /\ runs[a].out = runs[b].out
            /\ runs[a].err = runs[b].err

(***************************************************************************)
(* SpecLamb: nodes are built from start and from one another, and any node *)
(* is invoked on an input.  The comparison operators hand their caller the *)
(* invoke of the new node, not the node, so nothing is built on it.        *)
(***************************************************************************)
MaxNodes == 2   \* Lambda objects built besides start

\* the inputs of invoke
Inputs == {I(0), I(3), L(<<I(3)>>), L(<<L(<<I(0)>>), I(3)>>)}

\* the arguments of the builder methods
AttrArgs == {"real", "bit_length"}
ItemArgs == {0, 1}
ApplyArgs == {<<"add", Kw(1)>>, <<"rep", NoKw>>}

InitLamb ==
    /\ nodes = <<start>>
    /\ val = NoCall
    /\ calls = <<>>
    /\ BuildIdle /\ ApplyIdle /\ CacheIdle /\ RestIdle

\* the nodes a caller holds as Lambda objects
Held == {n \in 1..Len(nodes) : nodes[n].accessor.op \notin {"lt", "eq"}}

BuiltNode(heap) ==
    /\ Len(nodes) <= MaxNodes
    /\ nodes' = heap
    /\ UNCHANGED <<val, calls, buildVars, applyVars, cacheVars, restVars>>

GetAttr == \E self \in Held, item \in AttrArgs : BuiltNode(Lambda_getattr(nodes, self, item))

GetItem == \E self \in Held, item \in ItemArgs : BuiltNode(Lambda_getitem(nodes, self, item))

CallNode == \E self \in Held : BuiltNode(Lambda_call(nodes, self))

Lt == \E self \in Held : BuiltNode(Lambda_lt(nodes, self, I(1)))

Eq == \E self \in Held : BuiltNode(Lambda_eq(nodes, self, I(0)))

Negate == \E self \in Held : BuiltNode(Lambda_negate(nodes, self))

ApplyFcn ==
    \E self \in Held, a \in ApplyArgs : BuiltNode(Lambda_apply(nodes, self, a[1], a[2]))

\* node.invoke(x)
Invoke ==
    /\ \E self \in 1..Len(nodes), x \in Inputs :
          val' = [op |-> "invoke", node |-> self, x |-> x,
                  res |-> Lambda_invoke(nodes, self, x)]
    /\ UNCHANGED <<nodes, calls, buildVars, applyVars, cacheVars, restVars>>

NextLamb ==
    \/ GetAttr \/ GetItem \/ CallNode \/ Lt \/ Eq \/ Negate \/ ApplyFcn
    \/ Invoke

SpecLamb == InitLamb /\ [][NextLamb]_vars

(***************************************************************************)
(* C17: invoke(x) on a node is the accessors of the chain that leads to    *)
(* the node applied one after the other, the one nearest the root first,   *)
(* starting from x (an accessor that raises ends the evaluation with its   *)
(* exception); invoke(x) on the root is x.                                 *)
(***************************************************************************)
RECURSIVE AccessorPath(_, _)
AccessorPath(ns, self) ==
    IF self = 0 \/ ns[self].accessor.op = "none" THEN <<>>
    ELSE Append(AccessorPath(ns, ns[self].parent), ns[self].accessor)

RECURSIVE ComposedAccessors(_, _)
ComposedAccessors(accs, r) ==
    IF accs = <<>> \/ ~r.ok THEN r
    ELSE ComposedAccessors(Tail(accs), Accessor_call(Head(accs), r.val))

C17_InvokeComposesParentFirst ==
    val.op = "invoke" =>
        /\ val.res = ComposedAccessors(AccessorPath(nodes, val.node), Ret(val.x))
        /\ val.node = 1 => val.res = Ret(val.x)

\* _.bit_length() invoked on 3: the attribute first, then the call
C17_Witness ==
    /\ val.op = "invoke" /\ val.x = I(3) /\ val.node = 3
    /\ nodes[3].parent = 2 /\ nodes[2].parent = 1
    /\ nodes[2].accessor.op = "attrgetter" /\ nodes[2].accessor.a = "bit_length"
    /\ nodes[3].accessor.op = "call"
    /\ val.res = Ret(I(2))

(***************************************************************************)
(* between.  A str is the sequence of its characters; a float is written   *)
(* F(n), n being its value (only floats with an integer value occur).      *)
(***************************************************************************)
Str(cs) == [t |-> "str", v |-> cs]
F(n) == [t |-> "float", v |-> n]
UNASSIGNED == [t |-> "unassigned", v |-> 0]

\* str(n), n an int
RECURSIVE Digits(_)
Digits(n) ==
    IF n < 10 THEN <<ToString(n)>> ELSE Append(Digits(n \div 10), ToString(n % 10))
str(n) == IF n < 0 THEN <<"-">> \o Digits(0 - n) ELSE Digits(n)

\* str of an int or of a float of integer value
repr(x) == IF x.t = "float" THEN str(x.v) \o <<".", "0">> ELSE str(x.v)

RECURSIVE Join(_)
Join(cs) == IF cs = <<>> THEN "" ELSE Head(cs) \o Join(Tail(cs))

DigitChars == {ToString(d) : d \in 0..9}

\* \s*
RECURSIVE SkipSpace(_)
SkipSpace(s) == IF s # <<>> /\ Head(s) = " " THEN SkipSpace(Tail(s)) ELSE s

\* [0-9._]*, which takes all it can
RECURSIVE NumRun(_)
NumRun(s) ==
    IF s # <<>> /\ Head(s) \in DigitChars \cup {".", "_"}
    THEN <<Head(s)>> \o NumRun(Tail(s)) ELSE <<>>

Drop(s, n) == SubSeq(s, n + 1, Len(s))

NoMatch == [ok |-> FALSE, groups |-> <<>>]

\* re.fullmatch(r"\s*([[(])\s*([0-9._]+)\s*,\s*([0-9._]+)\s*([])])\s*", left)
fullmatch(s) ==
    IF SkipSpace(s) = <<>> \/ Head(SkipSpace(s)) \notin {"[", "("} THEN NoMatch
    ELSE LET s2 == SkipSpace(Tail(SkipSpace(s)))
             n1 == NumRun(s2)
             s3 == SkipSpace(Drop(s2, Len(n1)))
         IN  IF n1 = <<>> \/ s3 = <<>> THEN NoMatch
             ELSE IF Head(s3) # "," THEN NoMatch
             ELSE LET s4 == SkipSpace(Tail(s3))
                      n2 == NumRun(s4)
                      s5 == SkipSpace(Drop(s4, Len(n2)))
                  IN  IF n2 = <<>> \/ s5 = <<>> THEN NoMatch
                      ELSE IF Head(s5) \notin {"]", ")"} \/ SkipSpace(Tail(s5)) # <<>>
                      THEN NoMatch
                      ELSE [ok |-> TRUE,
                            groups |-> <<Head(SkipSpace(s)), n1, n2, Head(s5)>>]

\* the value of a string of digits
RECURSIVE DigitsValue(_)
DigitsValue(cs) ==
    IF cs = <<>> THEN 0
    ELSE 10 * DigitsValue(SubSeq(cs, 1, Len(cs) - 1))
         + (CHOOSE d \in 0..9 : ToString(d) = cs[Len(cs)])

\* float(s), s a string of digits
float(cs) ==
    CASE \A i \in 1..Len(cs) : cs[i] \in DigitChars -> F(DigitsValue(cs))

\* interpret_between
interpret_between(left, right, left_inclusive, right_inclusive) ==
    IF right # UNASSIGNED
    THEN Ret([left |-> left, right |-> right,
              li |-> left_inclusive, ri |-> right_inclusive])
    ELSE CASE left.t = "str" ->
                IF ~fullmatch(left.v).ok THEN Raise(Exc("ValueError", "interpret_between"))
                ELSE Ret([left |-> float(fullmatch(left.v).groups[2]),
                          right |-> float(fullmatch(left.v).groups[3]),
                          li |-> fullmatch(left.v).groups[1] = "[",
                          ri |-> fullmatch(left.v).groups[4] = "]"])
           [] left.t = "tuple" ->
                Ret([left |-> left.v[1], right |-> left.v[2], li |-> FALSE, ri |-> FALSE])
           [] left.t = "list" /\ Len(left.v) = 2 ->
                Ret([left |-> left.v[1], right |-> left.v[2], li |-> TRUE, ri |-> TRUE])
           [] OTHER -> Raise(Exc("ValueError", "interpret_between"))

\* Lambda.between: [ok, ns, exc], ns the heap with the new node when ok
Lambda_between(ns, self, left, right, left_inclusive, right_inclusive) ==
    LET b == interpret_between(left, right, left_inclusive, right_inclusive)
    IN  IF ~b.ok THEN [ok |-> FALSE, ns |-> ns, exc |-> b.exc]
        ELSE [ok |-> TRUE,
              ns |-> Append(ns, Lambda(self, Accessor("between", b.val, NoKw),
                                       " in " \o (IF b.val.li THEN "[" ELSE "(")
                                         \o Join(repr(b.val.left)) \o ","
                                         \o Join(repr(b.val.right))
                                         \o (IF b.val.ri THEN "]" ELSE ")"))),
              exc |-> NoExc]

(***************************************************************************)
(* SpecBetween: start.between(...) is called in one of the ways of         *)
(* writing an interval with the bounds l and r, and the node it returns is *)
(* invoked on a value at or next to a bound.                               *)
(***************************************************************************)
\* <<l, r>>
BetweenBounds == {<<2, 10>>, <<0, 2>>, <<0 - 1, 1>>}

\* f"{lb}{l},{r}{rb}"
Interval(lb, l, r, rb) == Str(<<lb>> \o str(l) \o <<",">> \o str(r) \o <<rb>>)

\* a call of between: what it is given, and the interval it is to mean
How(id, left, right, li, ri, closedLeft, closedRight) ==
    [id |-> id, left |-> left, right |-> right, li |-> li, ri |-> ri,
     closedLeft |-> closedLeft, closedRight |-> closedRight]

Conventions(l, r) ==
    {How("between(l, r)", I(l), I(r), TRUE, FALSE, TRUE, FALSE),
     How("between('[l,r)')", Interval("[", l, r, ")"), UNASSIGNED, TRUE, FALSE, TRUE, FALSE),
     How("between([l, r])", L(<<I(l), I(r)>>), UNASSIGNED, TRUE, FALSE, TRUE, TRUE),
     How("between('[l,r]')", Interval("[", l, r, "]"), UNASSIGNED, TRUE, FALSE, TRUE, TRUE),
     How("between(l, r, left_inclusive=True, right_inclusive=True)",
         I(l), I(r), TRUE, TRUE, TRUE, TRUE),
     How("between((l, r))", T(I(l), I(r)), UNASSIGNED, TRUE, FALSE, FALSE, FALSE),
     How("between('(l,r)')", Interval("(", l, r, ")"), UNASSIGNED, TRUE, FALSE, FALSE, FALSE),
     How("between(l, r, left_inclusive=False, right_inclusive=False)",
         I(l), I(r), FALSE, FALSE, FALSE, FALSE),
     How("between('(l,r]')", Interval("(", l, r, "]"), UNASSIGNED, TRUE, FALSE, FALSE, TRUE),
     How("between(l, r, left_inclusive=False, right_inclusive=True)",
         I(l), I(r), FALSE, TRUE, FALSE, TRUE)}

Probes(l, r) == {l - 1, l, l + 1, r - 1, r, r + 1}

InitBetween ==
    /\ bw = NoCall
    /\ calls = <<>>
    /\ BuildIdle /\ ApplyIdle /\ CacheIdle /\ LambIdle
    /\ TwiceIdle /\ CollectIdle /\ AttemptIdle /\ OtherIdle

betweenRest == <<calls, buildVars, applyVars, cacheVars, lambVars, runs, term, atts, seen,
                 otherVars>>

\* start.between(...)
Between ==
    /\ bw = NoCall
    /\ \E b \in BetweenBounds : \E how \in Conventions(b[1], b[2]) :
          bw' = [op |-> "between", l |-> b[1], r |-> b[2], how |-> how,
                 made |-> Lambda_between(<<start>>, 1, how.left, how.right,
                                         how.li, how.ri),
                 e |-> 0, res |-> Ret(NoVal)]
    /\ UNCHANGED betweenRest

\* the node between returned, invoked on e
Probe ==
    /\ bw.op = "between" /\ bw.made.ok
    /\ \E e \in Probes(bw.l, bw.r) :
          bw' = [bw EXCEPT !.op = "probed", !.e = e,
                           !.res = Lambda_invoke(bw.made.ns, Len(bw.made.ns), I(e))]
    /\ UNCHANGED betweenRest

NextBetween == Between \/ Probe

SpecBetween == InitBetween /\ [][NextBetween]_vars

(***************************************************************************)
(* C18: every way of calling between gives a node that tests the interval  *)
(* the call denotes: on each value at and next to the bounds l and r, the  *)
(* node gives l <= e or l < e, and e <= r or e < r, as the brackets, the   *)
(* kind of pair or the flags say.                                          *)
(***************************************************************************)
C18_ConventionsAgree ==
    bw.op # "none" =>
        /\ bw.made.ok
        /\ bw.op = "probed" =>
              bw.res = Ret(B(/\ IF bw.how.closedLeft THEN bw.l <= bw.e ELSE bw.l < bw.e
                             /\ IF bw.how.closedRight THEN bw.e <= bw.r ELSE bw.e < bw.r))

(***************************************************************************)
(* Attempt.  An exception object is E(x, id): x its type and origin, id    *)
(* telling it from the other exception objects.  An outcome is Gave(v), a  *)
(* return of v, or Threw(x), the exception object x raised.                *)
(***************************************************************************)
MaxAtts == 2

E(x, id) == [t |-> "exception", v |-> [kind |-> x.kind, by |-> x.by, id |-> id]]
Gave(v) == [ok |-> TRUE, val |-> v]
Threw(x) == [ok |-> FALSE, val |-> x]

\* isinstance(x, Exception), which `except Exception` tests
IsException(x) ==
    x.v.kind \notin {"SystemExit", "KeyboardInterrupt", "GeneratorExit"}

\* Attempt.__init__
Attempt(result, exception) == [result |-> result, exception |-> exception]

\* Attempt.result; raising what is no exception is a TypeError
Attempt_result(self, id) ==
    IF self.result = UNASSIGNED
    THEN IF self.exception.t = "exception" THEN Threw(self.exception)
         ELSE Threw(E(Exc("TypeError", "raise"), id))
    ELSE Gave(self.result)

\* Attempt.exception
Attempt_exception(self) ==
    IF self.exception = UNASSIGNED THEN NoVal ELSE self.exception

\* Attempt.succeeded
Attempt_succeeded(self) == self.result # UNASSIGNED

\* Attempt.failed
Attempt_failed(self) == self.exception # UNASSIGNED

\* what try_ is given: a plain function, a Lambda, or the invoke of a Lambda
Function(f) == [kind |-> "function", f |-> f, ns |-> <<>>, self |-> 0]
Node(ns, self) == [kind |-> "Lambda", f |-> "", ns |-> ns, self |-> self]

\* Lambda.f
Lambda_f(fcn) == [fcn EXCEPT !.kind = "invoke"]

\* as_fcn on a Lambda or a callable
as_fcn_callable(function_or_lambda) ==
    IF function_or_lambda.kind = "Lambda" THEN Lambda_f(function_or_lambda)
    ELSE function_or_lambda

\* what a call returned or raised, the exception being the object id
Outcome(r, id) == IF r.ok THEN Gave(r.val) ELSE Threw(E(r.exc, id))

\* f(e, **kw); exit(e) raises SystemExit; the exception object is new
CallFcn(f, e, kw, id) ==
    Outcome(IF f.kind = "invoke" THEN Lambda_invoke(f.ns, f.self, e)
            ELSE IF f.f = "exit" THEN Raise(Exc("SystemExit", "exit"))
            ELSE CallAny(as_fcn(f.f), e, kw),
            id)

\* try_ raising an exception of its own in place of the one of f
Recaptured(r, id) ==
    IF r.ok THEN Gave(Attempt(r.val, UNASSIGNED))
    ELSE Gave(Attempt(UNASSIGNED, E(r.val.v, id + 1)))
try_reraises(fcn, e, kwargs, id) ==
    Recaptured(CallFcn(as_fcn_callable(fcn), e, kwargs, id), id)

\* return Attempt(result=...), or except Exception as e: return Attempt(exception=e);
\* r is what f(*args, **kwargs) did
Captured(r) ==
    IF r.ok THEN Gave(Attempt(r.val, UNASSIGNED))
    ELSE IF IsException(r.val) THEN Gave(Attempt(UNASSIGNED, r.val))
    ELSE r

\* try_: the Attempt, or what `except Exception` lets through
try_(fcn, e, kwargs, id) == Captured(CallFcn(as_fcn_callable(fcn), e, kwargs, id))

\* Lambda.as_try, called: partial(try_, self.f)(e)
Lambda_as_try(fcn, e, id) == try_(Lambda_f(fcn), e, NoKw, id)

\* what a call gave or raised, with the calls of fcn it made
Called(fcn, e, kwargs) == [f |-> fcn, e |-> e, kw |-> kwargs]
Ran(r, cs) == [ok |-> r.ok, val |-> r.val, calls |-> cs]

\* Attempt.and_then running fcn whatever the Attempt holds
Attempt_and_then_always(self, fcn, kwargs, id) ==
    Ran(try_(fcn, self.result, kwargs, id), <<Called(fcn, self.result, kwargs)>>)

\* Attempt.and_then
Attempt_and_then(self, fcn, kwargs, id) ==
    IF Attempt_succeeded(self)
    THEN Ran(try_(fcn, Attempt_result(self, id).val, kwargs, id),
             <<Called(fcn, Attempt_result(self, id).val, kwargs)>>)
    ELSE Ran(Gave(self), <<>>)

(***************************************************************************)
(* SpecAttempt: Attempt objects are constructed, made by try_, by a        *)
(* Lambda.as_try and by and_then, and are asked for what they hold.  An    *)
(* entry of atts is the Attempt a and the call that made it; the call that *)
(* made no Attempt, because it raised, is left in seen.                    *)
(***************************************************************************)
TryArgs ==
    {<<Function("add"), Kw(1)>>, <<Function("rep"), NoKw>>, <<Function("rep"), Kw(1)>>,
     <<Function("boom"), NoKw>>, <<Function("exit"), NoKw>>,
     <<Node(Lambda_getitem(<<start>>, 1, 0), 2), NoKw>>}

\* e_.bit_length().as_try()
TryNodes == {Node(Lambda_call(Lambda_getattr(<<start>>, 1, "bit_length"), 2), 3)}

TryInputs == {I(1), I(2), L(<<I(2)>>)}

Results == {UNASSIGNED, I(1)}
Exceptions == {UNASSIGNED, E(Exc("ValueError", "caller"), 0)}

Made(op, fcn, e, kwargs, of) ==
    [op |-> op, fcn |-> fcn, e |-> e, kwargs |-> kwargs, of |-> of]

InitAttempt ==
    /\ atts = <<>>
    /\ seen = NoCall
    /\ calls = <<>>
    /\ BuildIdle /\ ApplyIdle /\ CacheIdle /\ LambIdle
    /\ TwiceIdle /\ CollectIdle /\ BetweenIdle /\ OtherIdle

attemptRest == <<calls, buildVars, applyVars, cacheVars, lambVars, runs, term, bw,
                 otherVars>>

\* the Attempt r gives, or the exception it raises, kept
Keep(r, by) ==
    IF r.ok THEN atts' = Append(atts, [a |-> r.val, by |-> by]) /\ seen' = NoCall
    ELSE atts' = atts /\ seen' = [op |-> "raised", by |-> by, res |-> r]

\* Attempt(result=..., exception=...), either left out
Construct ==
    /\ Len(atts) < MaxAtts
    /\ \E result \in Results, exception \in Exceptions :
          Keep(Gave(Attempt(result, exception)),
               Made("Attempt", Function(""), NoVal, NoKw, 0))
    /\ UNCHANGED attemptRest

\* try_(fcn, e, **kwargs)
Try ==
    /\ Len(atts) < MaxAtts
    /\ \E fk \in TryArgs, e \in TryInputs :
          Keep(try_(fk[1], e, fk[2], Len(atts) + 1),
               Made("try_", fk[1], e, fk[2], 0))
    /\ UNCHANGED attemptRest

\* node.as_try()(e)
AsTry ==
    /\ Len(atts) < MaxAtts
    /\ \E n \in TryNodes, e \in TryInputs :
          Keep(Lambda_as_try(n, e, Len(atts) + 1), Made("as_try", n, e, NoKw, 0))
    /\ UNCHANGED attemptRest

\* atts[i].and_then(fcn, **kwargs)
AndThen ==
    /\ Len(atts) < MaxAtts
    /\ \E i \in 1..Len(atts), fk \in TryArgs :
          Keep(Attempt_and_then(atts[i].a, fk[1], fk[2], Len(atts) + 1),
               Made("and_then", fk[1], NoVal, fk[2], i))
    /\ UNCHANGED attemptRest

\* atts[i] asked for result(), exception(), succeeded() and failed()
Ask ==
    /\ seen.op # "asked"
    /\ \E i \in 1..Len(atts) :
          seen' = [op |-> "asked", of |-> i,
                   result |-> Attempt_result(atts[i].a, Len(atts) + 1),
                   exception |-> Attempt_exception(atts[i].a),
                   succeeded |-> Attempt_succeeded(atts[i].a),
                   failed |-> Attempt_failed(atts[i].a)]
    /\ UNCHANGED <<atts, attemptRest>>

NextAttempt == Construct \/ Try \/ AsTry \/ AndThen \/ Ask

SpecAttempt == InitAttempt /\ [][NextAttempt]_vars

(***************************************************************************)
(* C19: every Attempt holds either a result or an exception, never both    *)
(* and never neither: exactly one of succeeded() and failed() is true,     *)
(* whichever way the Attempt was made.                                     *)
(***************************************************************************)
C19_ExactlyOneOfResultAndException ==
    \A i \in 1..Len(atts) :
        Attempt_succeeded(atts[i].a) # Attempt_failed(atts[i].a)

(***************************************************************************)
(* C20: try_ raises no Exception that f raises.  When f returns, the       *)
(* Attempt has succeeded and its result() is what f returned; when f       *)
(* raises an Exception, the Attempt has failed, its exception() is the     *)
(* exception object f raised and its result() raises that same object.     *)
(***************************************************************************)
\* what the function of the call `by` does on its argument, the call being
\* the n-th
Did(by, n) == CallFcn(as_fcn_callable(by.fcn), by.e, by.kwargs, n)

\* the Attempt a holds o, what the function did
AttemptHolds(a, o) ==
    /\ o.ok => /\ Attempt_succeeded(a) /\ ~Attempt_failed(a)
               /\ Attempt_result(a, 0) = Gave(o.val)
    /\ ~o.ok => /\ Attempt_failed(a) /\ ~Attempt_succeeded(a)
                /\ Attempt_exception(a) = o.val
                /\ Attempt_result(a, 0) = Threw(o.val)

C20_TryCapturesOutcome ==
    /\ \A i \in 1..Len(atts) :
          atts[i].by.op \in {"try_", "as_try"} => AttemptHolds(atts[i].a, Did(atts[i].by, i))
    /\ seen.op = "raised" => ~IsException(seen.res.val)

\* try_ has kept an exception of f, and the Attempt was asked for it
C20_Witness ==
    /\ seen.op = "asked"
    /\ atts[seen.of].by.op = "try_"
    /\ ~Did(atts[seen.of].by, seen.of).ok
    /\ seen.failed /\ ~seen.succeeded
    /\ seen.exception = Did(atts[seen.of].by, seen.of).val
    /\ seen.result = Threw(seen.exception)

\* try_ has kept what f returned
C20_WitnessReturned ==
    /\ seen.op = "asked"
    /\ atts[seen.of].by.op = "as_try"
    /\ seen.succeeded
    /\ seen.result = Gave(I(2))

(***************************************************************************)
(* SpecChain: try_(f, e).and_then(f1).and_then(f2)...: atts[1] is what     *)
(* try_ returned, atts[i + 1] what and_then returned when called on        *)
(* atts[i]; ran are the calls of its function the and_then made.           *)
(***************************************************************************)
MaxChain == 3

InitChain == InitAttempt

\* the Attempt r gives put at the end of the chain, or the exception it raises kept
Link(r, by, ran) ==
    IF r.ok THEN atts' = Append(atts, [a |-> r.val, by |-> by, ran |-> ran]) /\ seen' = seen
    ELSE atts' = atts /\ seen' = [op |-> "raised", by |-> by, res |-> r]

\* try_(fcn, e, **kwargs), the head of the chain
ChainTry ==
    /\ atts = <<>> /\ seen = NoCall
    /\ \E fk \in TryArgs, e \in TryInputs :
          Link(try_(fk[1], e, fk[2], 1), Made("try_", fk[1], e, fk[2], 0),
               <<Called(fk[1], e, fk[2])>>)
    /\ UNCHANGED attemptRest

\* and_then returning r
LinkRan(r, by) == Link(r, by, r.calls)

\* the last Attempt of the chain .and_then(fcn, **kwargs)
ChainAndThen ==
    /\ atts # <<>> /\ Len(atts) < MaxChain /\ seen = NoCall
    /\ \E fk \in TryArgs :
          LinkRan(Attempt_and_then(atts[Len(atts)].a, fk[1], fk[2], Len(atts) + 1),
                  Made("and_then", fk[1], NoVal, fk[2], Len(atts)))
    /\ UNCHANGED attemptRest

NextChain_ == ChainTry \/ ChainAndThen

SpecChain == InitChain /\ [][NextChain_]_vars

(***************************************************************************)
(* C21: and_then(f) on a failed Attempt returns that Attempt and calls f   *)
(* not at all; on a succeeded Attempt it calls f once, on the payload, and *)
(* returns an Attempt that holds what f returned or the exception f        *)
(* raised.  So in a chain every Attempt after the first failed one is that *)
(* one, and no function runs after it.                                     *)
(***************************************************************************)
C21_AndThenShortCircuits ==
    /\ \A i \in 2..Len(atts) :
          IF Attempt_failed(atts[i - 1].a)
          THEN atts[i].a = atts[i - 1].a /\ atts[i].ran = <<>>
          ELSE /\ atts[i].ran = <<Called(atts[i].by.fcn, atts[i - 1].a.result,
                                         atts[i].by.kwargs)>>
               /\ AttemptHolds(atts[i].a,
                               CallFcn(as_fcn_callable(atts[i].by.fcn),
                                       atts[i - 1].a.result, atts[i].by.kwargs, i))
    /\ \A j \in 1..Len(atts) : \A i \in j..Len(atts) :
          Attempt_failed(atts[j].a) => atts[i].a = atts[j].a /\ (i > j => atts[i].ran = <<>>)

\* a chain that succeeded, then failed, then went on: the failure is passed on
C21_Witness ==
    /\ Len(atts) = 3
    /\ Attempt_succeeded(atts[1].a)
    /\ Attempt_failed(atts[2].a) /\ atts[2].ran # <<>>
    /\ atts[3].a = atts[2].a /\ atts[3].ran = <<>>

\* and_then on a succeeded Attempt, giving a succeeded one
C21_WitnessSucceeded ==
    /\ Len(atts) >= 2
    /\ atts[1].a.result = I(1)
    /\ atts[2].by.fcn = Function("add") /\ atts[2].a.result = I(2)

(***************************************************************************)
(* check.each.  A message is the sequence of its pieces, a blank being a   *)
(* piece of its own, so that msg[-1].isspace() is a test of the last       *)
(* piece.  The keyword arguments are the sequence of their <<name, value>> *)
(* pairs, in the order of the call.                                        *)
(***************************************************************************)
MaxArgs == 2
MaxKwargs == 2

\* Lambda.__repr__
RECURSIVE Lambda_repr(_, _)
Lambda_repr(ns, self) ==
    IF ns[self].parent = 0
    THEN IF ns[self].name_ # "" THEN ns[self].name_ ELSE "unknown"
    ELSE Lambda_repr(ns, ns[self].parent) \o ns[self].name_

\* as_name_function on a Lambda, on the invoke of a Lambda, on a plain function
as_name_function_callable(f) ==
    CASE f.kind = "Lambda" -> [label |-> Lambda_repr(f.ns, f.self), f |-> Lambda_f(f)]
      [] f.kind = "invoke" -> [label |-> Lambda_repr(f.ns, f.self), f |-> f]
      [] OTHER -> [label |-> f.f, f |-> f]

\* fcn(instance)
CallTest(fcn, instance) ==
    IF fcn.kind = "invoke" THEN Lambda_invoke(fcn.ns, fcn.self, instance)
    ELSE CallAny(fcn.f, instance, NoKw)

\* str(instance), of an int that is not negative, a bool or an empty list
Show(v) ==
    CASE v.t = "int" -> ToString(v.v)
      [] v.t = "bool" -> IF v.v THEN "True" ELSE "False"
      [] v.t = "list" /\ v.v = <<>> -> "[]"

\* (f"Value #{n + 1}", a) for n, a in enumerate(args)
Enumerated(args) == [n \in 1..Len(args) |-> <<"Value #" \o ToString(n), args[n]>>]

\* if msg and not msg[-1].isspace(): msg += " "
Spaced(msg) == IF msg # <<>> /\ Last(msg) # " " THEN Append(msg, " ") ELSE msg

\* tuple(s)
Tuple(s) == [t |-> "tuple", v |-> s]

EachRaised(kind, msg, cs) ==
    [ok |-> FALSE, val |-> NoVal, kind |-> kind, msg |-> msg, calls |-> cs]
EachReturned(v, cs) ==
    [ok |-> TRUE, val |-> v, kind |-> "none", msg |-> <<>>, calls |-> cs]

\* for label, instance in instances: ...; ret_ is what fcn(instance) did
RECURSIVE each_loop(_, _, _, _, _, _, _)
each_body(fcn, fname, instances, values, msg, failed, cs, ret_) ==
    IF ~ret_.ok THEN EachRaised(ret_.exc.kind, <<>>, Append(cs, Head(instances)[2]))
    ELSE IF ret_.val.t # "bool"
    THEN EachRaised("ValueError",
                    <<"Test ", fname, " for ", Head(instances)[1], "=",
                      Show(Head(instances)[2]), " does not evaluate to a bool.">>,
                    Append(cs, Head(instances)[2]))
    ELSE IF ~ret_.val.v
    THEN each_loop(fcn, fname, Tail(instances), values,
                   Spaced(msg) \o <<Head(instances)[1], " = ", Show(Head(instances)[2]),
                                    " failed test ", fname, ".", " ">>,
                   TRUE, Append(cs, Head(instances)[2]))
    ELSE each_loop(fcn, fname, Tail(instances), values, msg, failed,
                   Append(cs, Head(instances)[2]))

\* the loop of each, then `if failed: raise ValueError(msg)` and the return
each_loop(fcn, fname, instances, values, msg, failed, cs) ==
    IF instances = <<>>
    THEN IF failed THEN EachRaised("ValueError", msg, cs)
         ELSE EachReturned(values, cs)
    ELSE each_body(fcn, fname, instances, values, msg, failed, cs,
                   CallTest(fcn, Head(instances)[2]))

\* the values, positional then keyword
Values(args, kwargs) == args \o [i \in 1..Len(kwargs) |-> kwargs[i][2]]

\* check.each testing the keyword values before the positional ones
each_kwargs_first(test, args, msg, kwargs) ==
    each_loop(as_name_function_callable(test).f, as_name_function_callable(test).label,
              kwargs \o Enumerated(args), Tuple(Values(args, kwargs)), msg, FALSE, <<>>)

\* check.each(test, *args, msg=msg, **kwargs)
each(test, args, msg, kwargs) ==
    each_loop(as_name_function_callable(test).f, as_name_function_callable(test).label,
              Enumerated(args) \o kwargs, Tuple(Values(args, kwargs)), msg, FALSE, <<>>)

(***************************************************************************)
(* SpecCheck: one call of check.each.                                      *)
(***************************************************************************)
\* e_ < 1, a plain function, e_.negate(), and a test that gives its argument back
EachTests ==
    {Lambda_f(Node(Lambda_lt(<<start>>, 1, I(1)), 2)), Function("lt"),
     Node(Lambda_negate(<<start>>, 1), 2), Function("ident")}

EachValues == {I(0), I(1), B(TRUE), L(<<>>)}

\* msg: left out, without and with a blank at its end
EachMsgs == {<<>>, <<"Bad.">>, <<"Bad.", " ">>}

EachNames == <<"a", "b", "c", "d">>

InitCheck ==
    /\ chk = NoCall
    /\ par = NoCall
    /\ calls = <<>>
    /\ BuildIdle /\ ApplyIdle /\ CacheIdle /\ LambIdle
    /\ TwiceIdle /\ BetweenIdle /\ CollectIdle /\ AttemptIdle

checkRest == <<calls, buildVars, applyVars, cacheVars, lambVars, runs, bw, term, atts,
               seen, par>>

\* check.each(test, *args, msg=msg, **kwargs)
Each ==
    /\ chk = NoCall
    /\ \E test \in EachTests, msg \in EachMsgs, n \in 0..MaxArgs, k \in 0..MaxKwargs :
       \E args \in [1..n -> EachValues], kv \in [1..k -> EachValues] :
          chk' = [op |-> "each", test |-> test, args |-> args, msg |-> msg,
                  kwargs |-> [i \in 1..k |-> <<EachNames[i], kv[i]>>],
                  res |-> each(test, args, msg, [i \in 1..k |-> <<EachNames[i], kv[i]>>])]
    /\ UNCHANGED checkRest

NextCheck == Each

SpecCheck == InitCheck /\ [][NextCheck]_vars

(***************************************************************************)
(* C22: check.each evaluates the test on every value, positional values    *)
(* first, then keyword values; when some values fail it raises one         *)
(* ValueError whose message names every failing value, in that order, with *)
(* its label; when none fails it returns the tuple of all the values.      *)
(***************************************************************************)
\* the labelled values of the call, in the order stated
Labelled(c) ==
    [n \in 1..Len(c.args) |-> <<"Value #" \o ToString(n), c.args[n]>>] \o c.kwargs

\* what the test of the call does on the value v
Tested(c, v) ==
    IF c.test.kind = "function" THEN CallAny(c.test.f, v, NoKw)
    ELSE Lambda_invoke(c.test.ns, c.test.self, v)

FailingAt(c) == {i \in 1..Len(Labelled(c)) : Tested(c, Labelled(c)[i][2]) = Ret(B(FALSE))}

\* the values on which the test gives no bool, or raises
NoBoolAt(c) ==
    {i \in 1..Len(Labelled(c)) :
        Tested(c, Labelled(c)[i][2]) \notin {Ret(B(FALSE)), Ret(B(TRUE))}}

TestName(c) ==
    IF c.test.kind = "function" THEN c.test.f ELSE Lambda_repr(c.test.ns, c.test.self)

\* the message naming the values at the positions is, in order
RECURSIVE Naming(_, _, _)
Naming(c, is, i) ==
    IF i > Len(Labelled(c)) THEN <<>>
    ELSE (IF i \in is
          THEN <<Labelled(c)[i][1], " = ", Show(Labelled(c)[i][2]),
                 " failed test ", TestName(c), ".", " ">>
          ELSE <<>>) \o Naming(c, is, i + 1)

AllValues(c) == [i \in 1..Len(Labelled(c)) |-> Labelled(c)[i][2]]

Aggregates(c) ==
    /\ c.res.calls = AllValues(c)
    /\ IF FailingAt(c) = {}
       THEN c.res.ok /\ c.res.val = [t |-> "tuple", v |-> AllValues(c)]
       ELSE /\ ~c.res.ok /\ c.res.kind = "ValueError"
            /\ c.res.msg = (IF c.msg = <<"Bad.">> THEN <<"Bad.", " ">> ELSE c.msg)
                              \o Naming(c, FailingAt(c), 1)

C22_EachAggregates == chk.op = "each" => Aggregates(chk)

(***************************************************************************)
(* C22, amended: the above holds when the test gives a bool on every       *)
(* value.  Otherwise each stops at the first value on which the test gives *)
(* no bool or raises: it has evaluated the test on the values up to that   *)
(* one and raises a ValueError naming that value alone, or what the test   *)
(* raised, whatever values failed before it.                               *)
(***************************************************************************)
C22_EachAggregatesBoolTests ==
    chk.op = "each" =>
        IF NoBoolAt(chk) = {} THEN Aggregates(chk)
        ELSE /\ chk.res.calls = SubSeq(AllValues(chk), 1, Min(NoBoolAt(chk)))
             /\ ~chk.res.ok
             /\ IF Tested(chk, AllValues(chk)[Min(NoBoolAt(chk))]).ok
                THEN /\ chk.res.kind = "ValueError"
                     /\ chk.res.msg =
                           <<"Test ", TestName(chk), " for ",
                             Labelled(chk)[Min(NoBoolAt(chk))][1], "=",
                             Show(AllValues(chk)[Min(NoBoolAt(chk))]),
                             " does not evaluate to a bool.">>
                ELSE chk.res.kind =
                        Tested(chk, AllValues(chk)[Min(NoBoolAt(chk))]).exc.kind

\* e_ < 1 on (1, 0, a=1): one ValueError naming Value #1 and a
C22_Witness ==
    /\ chk.op = "each" /\ chk.test.kind = "invoke" /\ chk.msg = <<"Bad.">>
    /\ chk.args = <<I(1), I(0)>> /\ chk.kwargs = <<<<"a", I(1)>>>>
    /\ chk.res.kind = "ValueError"
    /\ chk.res.msg = <<"Bad.", " ", "Value #1", " = ", "1", " failed test ", "_<1", ".", " ",
                       "a", " = ", "1", " failed test ", "_<1", ".", " ">>
    /\ chk.res.calls = <<I(1), I(0), I(1)>>

\* no value fails: the tuple of the values
C22_WitnessReturned ==
    /\ chk.op = "each" /\ chk.res.ok
    /\ chk.args = <<I(0)>> /\ chk.kwargs = <<<<"a", L(<<>>)>>>>
    /\ chk.res.val = [t |-> "tuple", v |-> <<I(0), L(<<>>)>>]

(***************************************************************************)
(* PFascade.map_unordered and pop_done.  The tasks are numbered by the     *)
(* position of their element in `it`; the Future of task i is i, and       *)
(* UNASSIGNED in the deque is 0.  The pool finishes the submitted tasks in *)
(* any order, at any time.  par is                                         *)
(*   [op, it, mapper, kwargs, batch_size                                   *)
(*    status   per task: "new", "pending" (submitted), "done"              *)
(*    futures  the deque                                                   *)
(*    pc       where the caller is: "for" (the loop over src), "clean",    *)
(*             "scan" and "sleep" (in pop_done), "finished", "raised"      *)
(*    drain    whether pop_done was called by the draining loop            *)
(*    next     the element src submits next                                *)
(*    n        the position of the scan of pop_done                        *)
(*    out      the results yielded, took the tasks they came from          *)
(*    err      the exception that left the generator]                      *)
(***************************************************************************)
MaxTasks == 3
MaxBatch == 2

\* the test of the batch that lets one more in
BatchFull_above(len, batch_size) ==
    batch_size # 0 /\ len > (IF batch_size > 1 THEN batch_size ELSE 1)

\* batch_size = max(batch_size or float('inf'), 1); len(futures) >= batch_size.
\* None is written 0, which `or` treats alike.
BatchFull(len, batch_size) ==
    batch_size # 0 /\ len >= (IF batch_size > 1 THEN batch_size ELSE 1)

\* pop_done that drops no empty slot
PopLeading_keeps(futures) == futures

\* futures.popleft() while futures[0] == UNASSIGNED
RECURSIVE PopLeading(_)
PopLeading(futures) ==
    IF futures # <<>> /\ Head(futures) = 0 THEN PopLeading(Tail(futures)) ELSE futures

\* partial(fcn, e, **kwargs)(): what the task of element i does
Task(p, i) == CallAny(as_fcn(p.mapper), p.it[i], p.kwargs)

\* the generator object map_unordered returns: nothing has run yet
Unordered(mapper, it, kwargs, batch_size) ==
    [op |-> "map_unordered", mapper |-> mapper, it |-> it, kwargs |-> kwargs,
     batch_size |-> batch_size, status |-> [i \in 1..Len(it) |-> "new"],
     futures |-> <<>>, pc |-> "for", drain |-> FALSE, next |-> 1, n |-> 0,
     out |-> <<>>, took |-> <<>>, err |-> NoExc]

\* for f in src: futures.append(f); if len(futures) >= batch_size: ff = popper()
\* and, src being exhausted, the first popper() of the draining loop
ForStep(p) ==
    IF p.next <= Len(p.it)
    THEN [p EXCEPT !.status[p.next] = "pending",
                   !.futures = Append(@, p.next),
                   !.next = @ + 1,
                   !.pc = IF BatchFull(Len(p.futures) + 1, p.batch_size)
                          THEN "clean" ELSE "for"]
    ELSE [p EXCEPT !.pc = "clean", !.drain = TRUE]

\* pop_done: the empty slots at the left end go; with nothing left it returns
\* UNASSIGNED, which ends the draining loop and fails the assert of the other
CleanStep(p) ==
    IF PopLeading(p.futures) # <<>>
    THEN [p EXCEPT !.futures = PopLeading(p.futures), !.pc = "scan", !.n = 1]
    ELSE IF p.drain THEN [p EXCEPT !.futures = <<>>, !.pc = "finished"]
    ELSE [p EXCEPT !.futures = <<>>, !.pc = "raised",
                   !.err = Exc("AssertionError", "map_unordered")]

\* pop_done leaving the done future in its slot
ScanStep_keeps_slot(p) ==
    IF p.n > Len(p.futures) THEN [p EXCEPT !.pc = "sleep"]
    ELSE IF p.futures[p.n] # 0 /\ p.status[p.futures[p.n]] = "done"
    THEN [p EXCEPT !.out = Append(@, Task(p, p.futures[p.n]).val),
                   !.took = Append(@, p.futures[p.n]),
                   !.pc = IF p.drain THEN "clean" ELSE "for"]
    ELSE [p EXCEPT !.n = @ + 1]

\* pop_done: one turn of `for n, ff in enumerate(futures)`; a done future leaves
\* its slot and its result is yielded, or its exception raised
ScanStep(p) ==
    IF p.n > Len(p.futures) THEN [p EXCEPT !.pc = "sleep"]
    ELSE IF p.futures[p.n] # 0 /\ p.status[p.futures[p.n]] = "done"
    THEN IF Task(p, p.futures[p.n]).ok
         THEN [p EXCEPT !.futures[p.n] = 0,
                        !.out = Append(@, Task(p, p.futures[p.n]).val),
                        !.took = Append(@, p.futures[p.n]),
                        !.pc = IF p.drain THEN "clean" ELSE "for"]
         ELSE [p EXCEPT !.futures[p.n] = 0, !.pc = "raised",
                        !.err = Task(p, p.futures[p.n]).exc]
    ELSE [p EXCEPT !.n = @ + 1]

\* time.sleep(0.1), then `while futures` again
SleepStep(p) == [p EXCEPT !.pc = "scan", !.n = 1]

(***************************************************************************)
(* SpecUnordered: one map_unordered generator, enumerated by its caller    *)
(* while the pool finishes the tasks.                                      *)
(***************************************************************************)
ParElems == {I(0), I(1), L(<<>>)}
ParMappers == {<<"add", Kw(1)>>}

InitUnordered ==
    /\ par = NoCall
    /\ chk = NoCall
    /\ calls = <<>>
    /\ BuildIdle /\ ApplyIdle /\ CacheIdle /\ LambIdle
    /\ TwiceIdle /\ BetweenIdle /\ CollectIdle /\ AttemptIdle

parRest == <<calls, buildVars, applyVars, cacheVars, lambVars, runs, bw, term, atts,
             seen, chk>>

\* pf.map_unordered(mapper, it, batch_size=batch_size, **kwargs)
MapUnordered ==
    /\ par = NoCall
    /\ \E m \in ParMappers, len \in 0..MaxTasks, batch_size \in 0..MaxBatch :
       \E it \in [1..len -> ParElems] :
          par' = Unordered(m[1], it, m[2], batch_size)
    /\ UNCHANGED parRest

For ==
    /\ par.op = "map_unordered" /\ par.pc = "for"
    /\ par' = ForStep(par)
    /\ UNCHANGED parRest

Clean ==
    /\ par.op = "map_unordered" /\ par.pc = "clean"
    /\ par' = CleanStep(par)
    /\ UNCHANGED parRest

Scan ==
    /\ par.op = "map_unordered" /\ par.pc = "scan"
    /\ par' = ScanStep(par)
    /\ UNCHANGED parRest

Sleep ==
    /\ par.op = "map_unordered" /\ par.pc = "sleep"
    /\ par' = SleepStep(par)
    /\ UNCHANGED parRest

\* a worker of the pool finishes a submitted task
Complete ==
    /\ par.op # "none"
    /\ \E i \in 1..Len(par.it) :
          /\ par.status[i] = "pending"
          /\ par' = [par EXCEPT !.status[i] = "done"]
    /\ UNCHANGED parRest

CallerStep == For \/ Clean \/ Scan \/ Sleep

NextUnordered == MapUnordered \/ CallerStep \/ Complete

SpecUnordered == InitUnordered /\ [][NextUnordered]_vars

SpecUnorderedFair ==
    InitUnordered /\ [][NextUnordered]_vars /\ WF_vars(CallerStep) /\ WF_vars(Complete)

(***************************************************************************)
(* C23: map_unordered yields one result per element, whatever the order in *)
(* which the tasks finish and whatever the batch_size: every result        *)
(* yielded is mapper(e, **kwargs) of an element whose task is done, no     *)
(* task is yielded twice, and when the generator finishes every element    *)
(* has been yielded, so that the results yielded are, as a multiset, those *)
(* of the mapper over `it`.  (A task that raised ends the generator with   *)
(* its exception; the assert never fails.)                                 *)
(***************************************************************************)
Times(s, v) == Cardinality({k \in 1..Len(s) : s[k] = v})

TaskResults(p) == [i \in 1..Len(p.it) |-> Task(p, i).val]

C23_UnorderedYieldsEachOnce ==
    par.op = "map_unordered" =>
        /\ \A j, k \in 1..Len(par.took) : par.took[j] = par.took[k] => j = k
        /\ Len(par.out) = Len(par.took)
        /\ \A k \in 1..Len(par.took) :
              /\ par.status[par.took[k]] = "done"
              /\ Task(par, par.took[k]) = Ret(par.out[k])
        /\ par.pc = "finished" =>
              /\ \A i \in 1..Len(par.it) : Times(par.took, i) = 1
              /\ \A k \in 1..Len(par.out) :
                    Times(par.out, par.out[k]) = Times(TaskResults(par), par.out[k])
        /\ par.pc = "raised" =>
              \E i \in 1..Len(par.it) : ~Task(par, i).ok /\ par.err = Task(par, i).exc

\* three tasks, two alike, finished out of order under batch_size 2
C23_Witness ==
    /\ par.op = "map_unordered" /\ par.pc = "finished" /\ par.batch_size = 2
    /\ par.it = <<I(0), I(1), I(0)>>
    /\ par.took = <<2, 3, 1>>
    /\ par.out = <<I(2), I(1), I(1)>>

(***************************************************************************)
(* C24: with batch_size = b >= 1 no more than b tasks are in flight, a     *)
(* task in flight being one submitted whose result has not been taken out  *)
(* of the deque; and a task is submitted only while fewer than b are.      *)
(***************************************************************************)
InFlight(p) == Cardinality({k \in 1..Len(p.futures) : p.futures[k] # 0})

C24_BatchBoundsInFlight ==
    [][par'.op = "map_unordered" /\ par'.batch_size >= 1 =>
         /\ InFlight(par') <= par'.batch_size
         /\ \A i \in 1..Len(par'.it) :
               par'.status[i] # "new" => i \in {par'.futures[k] : k \in 1..Len(par'.futures)}
                                         \/ Times(par'.took, i) = 1
                                         \/ par'.pc = "raised"
         /\ (par.op = "map_unordered" /\ par'.next > par.next) =>
               InFlight(par) < par.batch_size]_vars

\* batch_size 2, two in flight and a third element waiting for a result to be yielded
C24_Witness ==
    /\ par.op = "map_unordered" /\ par.batch_size = 2 /\ Len(par.it) = 3
    /\ InFlight(par) = 2 /\ par.next = 3 /\ par.pc = "sleep"

(***************************************************************************)
(* C30: map_unordered terminates.  The pool finishing every submitted task *)
(* in the end, the generator yields a result for every element and         *)
(* finishes (or raises what a task raised); pop_done leaves its waiting    *)
(* loop once a future of the deque is done; and the generator finishes     *)
(* only with no submitted task left unyielded.                             *)
(***************************************************************************)
AllReturn(p) == \A i \in 1..Len(p.it) : Task(p, i).ok

\* the generator is at one of the places S
At(S) == par.op = "map_unordered" /\ par.pc \in S

C30_UnorderedTerminates ==
    /\ (par.op = "map_unordered" /\ AllReturn(par))
          ~> (At({"finished"}) /\ Len(par.out) = Len(par.it))
    /\ par.op = "map_unordered" ~> At({"finished", "raised"})
    /\ (At({"scan", "sleep"})
          /\ \E k \in 1..Len(par.futures) :
                par.futures[k] # 0 /\ par.status[par.futures[k]] = "done")
          ~> At({"for", "clean", "finished", "raised"})
    /\ [](At({"finished"}) =>
             /\ par.futures = <<>>
             /\ \A i \in 1..Len(par.it) : par.status[i] = "done" /\ Times(par.took, i) = 1)

\* the generator finished after draining three tasks, the last submitted first
C30_Witness ==
    /\ par.op = "map_unordered" /\ par.pc = "finished" /\ par.batch_size = 0
    /\ Len(par.it) = 3 /\ par.took = <<3, 2, 1>> /\ par.drain

(***************************************************************************)
(* PFascade.map_ordered.  par holds the call:                              *)
(*   [status   of the task of each element, as above                       *)
(*    next     the element the list of futures is about to submit          *)
(*    n        the future whose result() the caller waits for              *)
(*    fin      the tasks in the order the pool finished them               *)
(*    out      the results collected so far                                *)
(*    err      the exception that left the call]                           *)
(***************************************************************************)
\* mapper, it, kwargs as given: nothing is submitted yet
Ordered(mapper, it, kwargs) ==
    [op |-> "map_ordered", mapper |-> mapper, it |-> it, kwargs |-> kwargs,
     status |-> [i \in 1..Len(it) |-> "new"], pc |-> "submit", next |-> 1, n |-> 1,
     fin |-> <<>>, out |-> <<>>, err |-> NoExc]

\* futures = [self.submit(partial(fcn, e, **kwargs)) for e in it]
SubmitStep(p) ==
    IF p.next <= Len(p.it)
    THEN [p EXCEPT !.status[p.next] = "pending", !.next = @ + 1]
    ELSE [p EXCEPT !.pc = "result"]

\* results collected as the pool finishes them
ResultStep_as_finished(p) ==
    IF p.n > Len(p.it) THEN [p EXCEPT !.pc = "returned"]
    ELSE IF Task(p, p.fin[p.n]).ok
    THEN [p EXCEPT !.out = Append(@, Task(p, p.fin[p.n]).val), !.n = @ + 1]
    ELSE [p EXCEPT !.pc = "raised", !.err = Task(p, p.fin[p.n]).exc]

\* [f.result(timeout=timeout) for f in tqdm(futures)]: one turn, the future
\* being done; its exception leaves the call
ResultStep(p) ==
    IF p.n > Len(p.it) THEN [p EXCEPT !.pc = "returned"]
    ELSE IF Task(p, p.n).ok
    THEN [p EXCEPT !.out = Append(@, Task(p, p.n).val), !.n = @ + 1]
    ELSE [p EXCEPT !.pc = "raised", !.err = Task(p, p.n).exc]

(***************************************************************************)
(* SpecOrdered: one map_ordered call while the pool finishes the tasks in  *)
(* any order.                                                              *)
(***************************************************************************)
\* pf.map_ordered(mapper, it, **kwargs)
MapOrdered ==
    /\ par = NoCall
    /\ \E m \in ParMappers, len \in 0..MaxTasks :
       \E it \in [1..len -> ParElems] :
          par' = Ordered(m[1], it, m[2])
    /\ UNCHANGED parRest

Submit ==
    /\ par.op = "map_ordered" /\ par.pc = "submit"
    /\ par' = SubmitStep(par)
    /\ UNCHANGED parRest

\* f.result() blocks until the future is done
Result ==
    /\ par.op = "map_ordered" /\ par.pc = "result"
    /\ par.n <= Len(par.it) => par.status[par.n] = "done"
    /\ par' = ResultStep(par)
    /\ UNCHANGED parRest

\* a worker of the pool finishes a submitted task
Finish ==
    /\ par.op = "map_ordered"
    /\ \E i \in 1..Len(par.it) :
          /\ par.status[i] = "pending"
          /\ par' = [par EXCEPT !.status[i] = "done", !.fin = Append(@, i)]
    /\ UNCHANGED parRest

NextOrdered == MapOrdered \/ Submit \/ Result \/ Finish

SpecOrdered == InitUnordered /\ [][NextOrdered]_vars

(***************************************************************************)
(* C25: map_ordered returns one result per element in the order of the     *)
(* input, result i being mapper(it[i], **kwargs), whatever order the pool  *)
(* finishes the tasks in.  (A task that raised leaves the call with its    *)
(* exception, the first such task in the order of the input.)              *)
(***************************************************************************)
C25_OrderedKeepsInputOrder ==
    par.op = "map_ordered" =>
        /\ Len(par.out) <= Len(par.it)
        /\ \A k \in 1..Len(par.out) : Task(par, k) = Ret(par.out[k])
        /\ par.pc = "returned" => Len(par.out) = Len(par.it)
        /\ par.pc = "raised" =>
              /\ Len(par.out) < Len(par.it)
              /\ ~Task(par, Len(par.out) + 1).ok
              /\ par.err = Task(par, Len(par.out) + 1).exc

\* three tasks finished last first, their results returned first to last
C25_Witness ==
    /\ par.op = "map_ordered" /\ par.pc = "returned"
    /\ par.it = <<I(0), I(1), I(0)>>
    /\ par.fin = <<3, 2, 1>>
    /\ par.out = <<I(1), I(2), I(1)>>

\* the first task raised after the second had finished
C25_WitnessRaised ==
    /\ par.op = "map_ordered" /\ par.pc = "raised"
    /\ par.it = <<L(<<>>), I(1)>>
    /\ par.fin = <<2, 1>>
    /\ par.out = <<>>

(***************************************************************************)
(* Enumerations of one CachingIt that overlap.  Every enumeration is a     *)
(* generator of its own; between two of its yields it runs without the     *)
(* others when one thread drives them all, and a second thread can run its *)
(* own enumeration while the first is anywhere in its body: here, after    *)
(* `if self._cache` and before the first element is pulled.  split records *)
(* that an enumeration was left there.                                     *)
(***************************************************************************)
\* what a fresh enumeration of the upstream It yields, and whether it ends
\* without raising: [seq, ok]
RECURSIVE Yields(_, _)
YieldsNext(g, acc, r) ==
    IF r.err # NoErr \/ r.yielded = <<>> THEN [seq |-> acc, ok |-> r.err = NoErr]
    ELSE Yields(Generator(g.v.it, r.gen, r.used), acc \o r.yielded)
Yields(g, acc) ==
    YieldsNext(g, acc, Pipeline_apply(g.v.it.pl, g.v.it.src, g.v.gn, <<>>, g.v.used))

UpstreamRun == Yields(It_iter(Upstream), <<>>)

\* the body has evaluated `if self._cache` and, the buffer being empty, made
\* the iterator of self._src; nothing is pulled yet
Started(self, it, en) ==
    [en EXCEPT !.pc = "started", !.mode = ModeOf(self, en),
               !.up = NewGen(it.pl.steps), !.split = TRUE]

\* lists of zeros and twos, and the generators that raise; upstream of the
\* cache no step, or map(boom), which raises on a two
SharedSources ==
    {s \in Sources : \A k \in 1..Len(s.elems) : s.elems[k] \in {I(0), I(2)}}
SharedPipelines(root) == {root, Last(Pipeline_map(<<root>>, 1, "boom", NoKw))}

InitShared ==
    /\ src \in SharedSources
    /\ pl \in SharedPipelines(pipeline(from_label(src)))
    /\ cit = CachingIt
    /\ enums = <<>>
    /\ calls = <<>>
    /\ gen = NoGen /\ out = <<>> /\ err = NoErr /\ reports = 0
    /\ used = NoneUsed(pl.steps)
    /\ BuildIdle /\ LambIdle /\ RestIdle

sharedRest == <<applyVars, buildVars, lambVars, restVars>>

\* iter() on the cached It, whatever the other enumerations are doing
IterAny ==
    /\ Len(enums) < MaxEnums
    /\ enums' = Append(enums, NewEnum @@ [split |-> FALSE])
    /\ UNCHANGED <<cit, calls, sharedRest>>

Stepped(e, r) ==
    /\ cit' = r.cit
    /\ enums' = [enums EXCEPT ![e] = r.en]
    /\ calls' = r.calls

\* next() on an enumeration, run up to its next yield or its end
NextOf ==
    \E e \in 1..Len(enums) :
        /\ enums[e].pc # "finished"
        /\ Stepped(e, CachingIt_iter_next(cit, Upstream, enums[e], calls))
        /\ UNCHANGED sharedRest

\* close() on an enumeration that is not running
CloseOf ==
    \E e \in 1..Len(enums) :
        /\ enums[e].pc \in {"created", "suspended"}
        /\ cit' = CachingIt_iter_close(cit, enums[e]).cit
        /\ enums' = [enums EXCEPT ![e] = CachingIt_iter_close(cit, enums[e]).en]
        /\ UNCHANGED <<calls, sharedRest>>

\* the thread of an enumeration is preempted right after `if self._cache`
TestOf ==
    \E e \in 1..Len(enums) :
        /\ enums[e].pc = "created"
        /\ enums' = [enums EXCEPT ![e] = Started(cit, Upstream, enums[e])]
        /\ UNCHANGED <<cit, calls, sharedRest>>

\* one thread: the enumerations interleave at their yields
NextInterleaved == IterAny \/ NextOf \/ CloseOf

SpecInterleaved == InitShared /\ [][NextInterleaved]_vars

\* several threads
NextThreads == IterAny \/ NextOf \/ CloseOf \/ TestOf

SpecThreads == InitShared /\ [][NextThreads]_vars

(***************************************************************************)
(* C26: no enumeration replays a partial buffer: whatever the interleaving *)
(* of the enumerations of one CachingIt, an enumeration that runs to       *)
(* completion (it ends because its loop is exhausted) has yielded all the  *)
(* elements of a complete enumeration of the upstream.                     *)
(***************************************************************************)
C26_NoPartialReplay ==
    \A e \in 1..Len(enums) :
        enums[e].end = "exhausted" =>
            UpstreamRun.ok /\ enums[e].out = UpstreamRun.seq

(***************************************************************************)
(* C27: the buffer is at all times a prefix of one enumeration of the      *)
(* upstream: no element of the upstream is in it more than once, and so a  *)
(* replay yields no more than one enumeration of the upstream does,        *)
(* whatever the interleaving of the enumerations.                          *)
(***************************************************************************)
BufferIsPrefix ==
    /\ IsPrefix(cit.cache, UpstreamRun.seq)
    /\ \A e \in 1..Len(enums) :
          enums[e].mode = "replay" => IsPrefix(enums[e].out, UpstreamRun.seq)

C27_BufferIsPrefix == BufferIsPrefix

(***************************************************************************)
(* C27, as amended: the same, as long as every enumeration ran from        *)
(* `if self._cache` to its first yield without another enumeration running *)
(* in between (one thread drives them, or one enumeration fills).          *)
(***************************************************************************)
C27_BufferIsPrefixUnlessSplit ==
    (\A e \in 1..Len(enums) : ~enums[e].split) => BufferIsPrefix

\* one enumeration filled the buffer while another, begun after its first
\* element, replayed it; both yielded the two elements of the upstream
C27_Witness ==
    /\ Len(enums) = 2
    /\ \A e \in 1..2 : ~enums[e].split /\ enums[e].end = "exhausted"
    /\ enums[1].mode = "fill" /\ enums[2].mode = "replay"
    /\ Len(cit.cache) = 2 /\ cit.cache = UpstreamRun.seq
    /\ enums[2].out = cit.cache /\ enums[2].pulls = 0

(***************************************************************************)
(* C28: the steps are lazy.  Under Spec: built and applied, a pipeline has *)
(* called no step function and pulled nothing from the source (nor from an *)
(* iterator a step captured) before the first next(); and when the steps   *)
(* are map steps only, the caller having consumed k outputs, exactly the   *)
(* first k elements of the source have been pulled and every step's        *)
(* function has been called exactly k times, on those elements in turn.    *)
(***************************************************************************)
OnlyMaps ==
    pl.steps # <<>> /\ \A i \in 1..Len(pl.steps) : pl.steps[i].op = "map"

CallsOfStep(i) == {c \in 1..Len(calls) : calls[c].step = i}

C28_StepsAreLazy ==
    /\ gen.pc \in {"none", "created"} =>
          calls = <<>> /\ gen.pos = 0 /\ out = <<>> /\ used = NoneUsed(pl.steps)
    /\ (OnlyMaps /\ gen.pc = "suspended") =>
          /\ gen.pos = Len(out)
          /\ \A i \in 1..Len(pl.steps) : Cardinality(CallsOfStep(i)) = Len(out)
          /\ \A k \in 1..Len(out) :
                /\ calls[(k - 1) * Len(pl.steps) + 1].step = 1
                /\ calls[(k - 1) * Len(pl.steps) + 1].e = src.elems[k]

\* two map steps over a list of two; one output consumed, one element pulled,
\* each function called once
C28_Witness ==
    /\ OnlyMaps /\ Len(pl.steps) = 2 /\ gen.pc = "suspended"
    /\ Len(src.elems) = 2 /\ Len(out) = 1 /\ gen.pos = 1 /\ Len(calls) = 2

\* applied and not yet asked for an output
C28_WitnessApplied ==
    /\ OnlyMaps /\ gen.pc = "created" /\ Len(src.elems) = 2 /\ calls = <<>>

(***************************************************************************)
(* SpecNodes: SpecLamb, and nodes made by the constructor itself, which    *)
(* takes any parent and None for the accessor.                             *)
(***************************************************************************)
\* Lambda(parent, None, '?'), parent a node or None
New ==
    \E parent \in Held \cup {0} : BuiltNode(Append(nodes, Lambda(parent, NoAccessor, "?")))

NextNodes == NextLamb \/ New

SpecNodes == InitLamb /\ [][NextNodes]_vars

(***************************************************************************)
(* C29: invoke on a node without accessor gives what its parent's invoke   *)
(* gives on the same input, whatever the parent, and the input itself when *)
(* it has no parent.                                                       *)
(***************************************************************************)
C29_NoAccessorGivesParentEvaluation ==
    (val.op = "invoke" /\ nodes[val.node].accessor.op = "none") =>
        IF nodes[val.node].parent = 0 THEN val.res = Ret(val.x)
        ELSE val.res = Lambda_invoke(nodes, nodes[val.node].parent, val.x)

====
